---------------------------- MODULE Spec2Model ----------------------------
(***************************************************************************)
(* The photo curation pipeline of scripts/photo_sort.py: the scan loop of  *)
(* main with its content-hash deduplication, get_image_date's fallback     *)
(* chain, group_photos_by_event, the two-phase select_top_photos,          *)
(* copy_selected_photos and the report.                                    *)
(*                                                                         *)
(* Three specifications share the variables:                               *)
(*   Spec        main(input_folder, output_folder) over a bounded folder   *)
(*   SpecSelect  group_photos_by_event / select_top_photos on arbitrary    *)
(*               records and arbitrary limits                              *)
(*   SpecDate    get_image_date on one arbitrary file                      *)
(***************************************************************************)
EXTENDS Integers, Sequences, FiniteSets, TLC

VARIABLES
    pc,               \* position in main: scan, group, select, copy, report, done
    files,            \* the candidate files os.walk yields, in scan order
    idx,              \* number of files the scan loop has consumed
    seen_hashes,      \* main's seen_hashes set
    skipped,          \* scan positions that hit the `continue` of the duplicate check
    photo_info,       \* main's photo_info list
    top_n,            \* per-event limit handed to select_top_photos
    global_limit,     \* global limit handed to select_top_photos
    events,           \* the dict of group_photos_by_event, in insertion order
    survivors,        \* select_top_photos' local selected_photos before the final sort
    selected_photos,  \* the list select_top_photos returns
    copies,           \* one entry per copy attempted by copy_selected_photos
    report,           \* rows of curated_photos_report.csv
    date_out,         \* value returned by get_image_date
    location_out,     \* value returned by get_image_location
    output_folder,    \* the image files in photo_sort's output folder: name and bytes
    first_run,        \* what the first of two runs of main selected, named and reported
    at_test,          \* per scan thread: the file that passed the seen_hashes test
                      \* and is not yet inserted
    photo_data        \* categorize_photos_nested's photo_data list

vars == <<pc, files, idx, seen_hashes, skipped, photo_info, top_n, global_limit,
          events, survivors, selected_photos, copies, report, date_out,
          location_out, output_folder, first_run, at_test, photo_data>>

----------------------------------------------------------------------------
(* Bounds of the model *)

MaxPhotos == 4
MaxLimit == 3
MaxFiles == 3
MaxTags == 2
MaxMatches == 1
MaxNameMatches == 2
MaxSelected == 3
MaxListed == 2
MaxConfigFiles == 3

(* Program constants *)

TOP_PHOTOS_PER_EVENT == 5
GLOBAL_LIMIT == 150

\* a global limit that is none: a slice bound no list reaches, as [:None]
\* and [:sys.maxsize] are
NoLimit == 1000000

\* categorise_photos.py: TOP_PHOTOS_PER_EVENT, and the score added for a face
\* that matches a reference face
CATEGORISE_TOP_PHOTOS_PER_EVENT == 5
FACE_MATCH_BONUS == 1000

----------------------------------------------------------------------------
(* Values *)

\* Python's None; every optional value of the model is a tuple, None the empty one
None == <<>>

\* a scan shared by two threads
TwoScanWorkers == {"main", "second"}

\* the threads that run the scan loop: main is the whole program, it starts
\* no thread and no process
ScanWorkers == {"main"}

\* calendar dates, as datetime.date(y, m, d)
D1 == <<2024, 6, 1>>
D2 == <<2024, 6, 2>>
D3 == <<2024, 6, 3>>
Dates == {D1, D2}

Scores == {0, 1, 2}
Limits == (0 - 1) .. MaxLimit

Min(a, b) == IF a <= b THEN a ELSE b
Max(a, b) == IF a >= b THEN a ELSE b

Range(s) == {s[k] : k \in DOMAIN s}

SeqsUpTo(S, n) == UNION {[1..k -> S] : k \in 0..n}

----------------------------------------------------------------------------
(* Files.  A file is what the functions of photo_sort.py can observe of it: *)
(*   path      its place in the scan (paths are pairwise distinct)          *)
(*   folder    os.path.basename(os.path.dirname(path))                      *)
(*   ext       the extension of the file name                               *)
(*   readable  whether open(path, "rb") and read() succeed                  *)
(*   bytes     the content                                                  *)
(*   decodable, pixels   what cv2.imread makes of the content               *)
(*   exif      what Image.open(path)._getexif() makes of it: status "error" *)
(*             (it raises), "none" (no EXIF block) or "ok" with the items   *)
(*             in the order the dict holds them                             *)
(*   name      for each date pattern, the texts it matches in the file      *)
(*             name, leftmost first                                         *)
(*   mtime     the date of os.path.getmtime                                 *)

DateTags == {"DateTimeOriginal", "DateTimeDigitized", "DateTime"}

\* "%Y:%m:%d %H:%M:%S" texts as <<y, m, d, H, M, S>>, and one that is no timestamp
Stamp(d) == <<d[1], d[2], d[3], 10, 0, 0>>
Garbage == <<0>>

\* file-name texts as <<y, m, d>>; month 13 is no calendar date
BadYMD == <<2024, 13, 45>>

IsLeap(y) == (y % 4 = 0 /\ y % 100 # 0) \/ y % 400 = 0

DaysIn(y, m) ==
    IF m = 2 THEN (IF IsLeap(y) THEN 29 ELSE 28)
    ELSE IF m \in {4, 6, 9, 11} THEN 30 ELSE 31

\* datetime.strptime(text, fmt).date() for a format of n numeric fields:
\* the date, or None where strptime raises ValueError
strptime_date(text, n) ==
    IF /\ Len(text) = n
       /\ text[1] \in 1..9999
       /\ text[2] \in 1..12
       /\ text[3] \in 1..DaysIn(text[1], text[2])
       /\ (n = 6 => text[4] \in 0..23 /\ text[5] \in 0..59 /\ text[6] \in 0..61)
    THEN <<text[1], text[2], text[3]>>
    ELSE None

\* Text is a sequence of one-character strings.
DigitChars == <<"0", "1", "2", "3", "4", "5", "6", "7", "8", "9">>

\* str(n) of an int n >= 0
RECURSIVE str(_)
str(n) == IF n < 10 THEN <<DigitChars[n + 1]>>
          ELSE str(n \div 10) \o <<DigitChars[(n % 10) + 1]>>

\* text left-padded with zeros to w characters, as %Y, %m and %d pad
RECURSIVE zfill(_, _)
zfill(text, w) == IF Len(text) >= w THEN text ELSE zfill(<<"0">> \o text, w)

\* date.strftime("%Y-%m-%d")
strftime(d) ==
    zfill(str(d[1]), 4) \o <<"-">> \o zfill(str(d[2]), 2)
        \o <<"-">> \o zfill(str(d[3]), 2)

\* hashlib.md5(data).hexdigest(): equal contents give equal digests, and the
\* contents of the model give pairwise distinct ones
md5(data) == <<"md5", data>>

get_image_hash(f) ==
    IF f.readable THEN md5(f.bytes) ELSE None

\* a scorer that gives a failed decode a middling score instead of 0
score_image_quality_failed_as_average(f) ==
    IF ~f.readable \/ ~f.decodable THEN 10
    ELSE 4 * f.pixels.sharpness + 2 * f.pixels.brightness
         + 2 * f.pixels.contrast + 2 * f.pixels.megapixels

\* score in tenths: 0.4 sharpness + 0.2 brightness + 0.2 contrast
\* + 0.2 megapixels; 0 when cv2.imread returns None
score_image_quality(f) ==
    IF ~f.readable \/ ~f.decodable THEN 0
    ELSE 4 * f.pixels.sharpness + 2 * f.pixels.brightness
         + 2 * f.pixels.contrast + 2 * f.pixels.megapixels

\* Image.open(path)._getexif() returned a non-empty dict
HasExif(f) == f.readable /\ f.exif.status = "ok" /\ f.exif.items # <<>>

\* position of the first item of the dict whose tag is one of the three date
\* tags, 0 if there is none
FirstDateItem(items) ==
    LET hits == {k \in DOMAIN items : items[k].tag \in DateTags}
    IN  IF hits = {} THEN 0 ELSE CHOOSE k \in hits : \A j \in hits : k <= j

\* the try block of get_image_date: the loop returns at the first date tag
\* it meets; a strptime that raises there ends the block
ExifDate(f) ==
    IF ~HasExif(f) THEN None
    ELSE LET k == FirstDateItem(f.exif.items)
         IN  IF k = 0 THEN None ELSE strptime_date(f.exif.items[k].value, 6)

\* a pattern step that goes on to later matches (re.findall in a loop): the
\* date of the first match that is one
PatternDateAnyMatch(matches, n) ==
    LET good == {k \in DOMAIN matches : strptime_date(matches[k], n) # None}
    IN  IF good = {} THEN None
        ELSE strptime_date(matches[CHOOSE k \in good : \A j \in good : k <= j], n)

\* re.search(pattern, filename) then strptime on the match: None when there
\* is no match or the match is no date
PatternDate(matches, n) ==
    IF matches = <<>> THEN None ELSE strptime_date(Head(matches), n)

get_image_date(f) ==
    IF ExifDate(f) # None THEN ExifDate(f)
    ELSE IF PatternDate(f.name.dashed, 3) # None THEN PatternDate(f.name.dashed, 3)
    ELSE IF PatternDate(f.name.digits8, 3) # None THEN PatternDate(f.name.digits8, 3)
    ELSE IF PatternDate(f.name.digits14, 6) # None THEN PatternDate(f.name.digits14, 6)
    ELSE f.mtime

\* Exceptions.  An exception class is a one-element tuple, None is "nothing
\* raised"; an except clause is the class it names.

\* an except clause on the EXIF step that names ValueError only
ExifExceptNarrow == "ValueError"

\* `except Exception` of get_image_date's try block
ExifExcept == "Exception"

\* `except ValueError` around each strptime on a file-name match
PatternExcept == "ValueError"

\* `except Exception` of get_image_location
LocationExcept == "Exception"

\* what a try block with this except clause lets through
Escapes(exc, handler) ==
    IF exc = None \/ handler = "Exception" \/ exc = <<handler>> THEN None ELSE exc

\* raised inside the try block of get_image_date: Image.open or _getexif
\* fail, or strptime rejects the value of the first date tag
ExifStepRaises(f) ==
    IF ~f.readable \/ f.exif.status = "error" THEN <<"OSError">>
    ELSE IF /\ HasExif(f)
            /\ FirstDateItem(f.exif.items) # 0
            /\ strptime_date(f.exif.items[FirstDateItem(f.exif.items)].value, 6) = None
         THEN <<"ValueError">>
    ELSE None

\* raised by strptime on the first match of a pattern
PatternRaises(matches, n) ==
    IF matches # <<>> /\ strptime_date(Head(matches), n) = None
    THEN <<"ValueError">> ELSE None

\* the exception that leaves get_image_date, None when it returns
get_image_date_raises(f) ==
    IF Escapes(ExifStepRaises(f), ExifExcept) # None
        THEN Escapes(ExifStepRaises(f), ExifExcept)
    ELSE IF ExifDate(f) # None THEN None
    ELSE IF Escapes(PatternRaises(f.name.dashed, 3), PatternExcept) # None
        THEN Escapes(PatternRaises(f.name.dashed, 3), PatternExcept)
    ELSE IF PatternDate(f.name.dashed, 3) # None THEN None
    ELSE IF Escapes(PatternRaises(f.name.digits8, 3), PatternExcept) # None
        THEN Escapes(PatternRaises(f.name.digits8, 3), PatternExcept)
    ELSE IF PatternDate(f.name.digits8, 3) # None THEN None
    ELSE Escapes(PatternRaises(f.name.digits14, 6), PatternExcept)

\* the GPSInfo value is <<key 1, key 2, key 3, key 4>> of the GPS dict, each
\* None when the key is missing; key 2 and key 4 are triples of rationals
GpsOf(items) ==
    LET hits == {k \in DOMAIN items : items[k].tag = "GPSInfo"}
    IN  IF hits = {} THEN None
        ELSE items[CHOOSE k \in hits : \A j \in hits : k >= j].value

ZeroDenominator(v) == \E k \in 1..3 : v[k][2] = 0

\* convert_to_degrees: d[0]/d[1] + (m[0]/m[1])/60 + (s[0]/s[1])/3600, in
\* units of 1e-5 degree and rounded to the nearest unit (the whole degrees
\* are split off to keep the products small)
convert_to_degrees(v) ==
    LET whole == v[1][1] \div v[1][2]
        rest  == v[1][1] % v[1][2]
        num   == rest * 900000 * v[2][2] * v[3][2]
                 + v[2][1] * 15000 * v[1][2] * v[3][2]
                 + v[3][1] * 250 * v[1][2] * v[2][2]
        den   == 9 * v[1][2] * v[2][2] * v[3][2]
    IN  whole * 100000 + (2 * num + den) \div (2 * den)

\* the float convert_to_degrees returns is 0.0 (EXIF rationals are unsigned)
IsZeroDegrees(v) == v[1][1] = 0 /\ v[2][1] = 0 /\ v[3][1] = 0

\* a location step that tests only that both coordinates are there
get_image_location_keeps_zero(f) ==
    IF ~HasExif(f) THEN None
    ELSE LET gps == GpsOf(f.exif.items)
         IN  IF gps = None THEN None
             ELSE IF gps[2] = None \/ gps[4] = None THEN None
             ELSE IF ZeroDenominator(gps[2]) \/ ZeroDenominator(gps[4]) THEN None
             ELSE <<convert_to_degrees(gps[2]), "_", convert_to_degrees(gps[4])>>

\* `if lat and lon` tests the converted values before they are rounded
get_image_location(f) ==
    IF ~HasExif(f) THEN None
    ELSE LET gps == GpsOf(f.exif.items)
         IN  IF gps = None THEN None
             ELSE IF gps[2] = None \/ gps[4] = None THEN None
             ELSE IF ZeroDenominator(gps[2]) \/ ZeroDenominator(gps[4]) THEN None
             ELSE IF IsZeroDegrees(gps[2]) \/ IsZeroDegrees(gps[4]) THEN None
             ELSE <<convert_to_degrees(gps[2]), "_", convert_to_degrees(gps[4])>>

\* raised inside the try block of get_image_location: Image.open or _getexif
\* fail, or a rational of a present coordinate has denominator 0
LocationStepRaises(f) ==
    IF ~f.readable \/ f.exif.status = "error" THEN <<"OSError">>
    ELSE IF ~HasExif(f) THEN None
    ELSE LET gps == GpsOf(f.exif.items)
         IN  IF gps = None THEN None
             ELSE IF \/ (gps[2] # None /\ ZeroDenominator(gps[2]))
                     \/ (gps[4] # None /\ ZeroDenominator(gps[4]))
                  THEN <<"ZeroDivisionError">>
             ELSE None

\* the exception that leaves get_image_location, None when it returns
get_image_location_raises(f) == Escapes(LocationStepRaises(f), LocationExcept)

\* file.lower().endswith(('.jpg', '.jpeg', '.png'))
IsImageName(f) == f.ext \in {".jpg", ".JPG", ".jpeg", ".png"}

----------------------------------------------------------------------------
(* Python list operations used by the selector *)

\* a slice that keeps one element too many
SliceToOffByOne(s, n) ==
    IF n >= 0 THEN SubSeq(s, 1, Min(n + 1, Len(s)))
              ELSE SubSeq(s, 1, Max(0, Len(s) + n))

\* s[:n], negative n included (all but the last -n elements)
SliceTo(s, n) ==
    IF n >= 0 THEN SubSeq(s, 1, Min(n, Len(s)))
              ELSE SubSeq(s, 1, Max(0, Len(s) + n))

\* one step of an unstable descending sort: x goes before its equals
InsertDescUnstable(sorted, x) ==
    LET ahead == Cardinality({k \in DOMAIN sorted : sorted[k].score > x.score})
    IN  SubSeq(sorted, 1, ahead) \o <<x>> \o SubSeq(sorted, ahead + 1, Len(sorted))

\* one step of a stable descending sort: x goes after every element whose
\* score is >= its own
InsertDesc(sorted, x) ==
    LET ahead == Cardinality({k \in DOMAIN sorted : sorted[k].score >= x.score})
    IN  SubSeq(sorted, 1, ahead) \o <<x>> \o SubSeq(sorted, ahead + 1, Len(sorted))

\* one step of an ascending sort
InsertAsc(sorted, x) ==
    LET ahead == Cardinality({k \in DOMAIN sorted : sorted[k].score <= x.score})
    IN  SubSeq(sorted, 1, ahead) \o <<x>> \o SubSeq(sorted, ahead + 1, Len(sorted))

RECURSIVE SortAscending(_)
SortAscending(photos) ==
    IF photos = <<>> THEN <<>>
    ELSE InsertAsc(SortAscending(SubSeq(photos, 1, Len(photos) - 1)),
                   photos[Len(photos)])

\* sorted(photos, key=lambda x: x['score'], reverse=True): stable, so records
\* of equal score keep the order they have in photos
RECURSIVE sorted_by_score(_)
sorted_by_score(photos) ==
    IF photos = <<>> THEN <<>>
    ELSE InsertDesc(sorted_by_score(SubSeq(photos, 1, Len(photos) - 1)),
                    photos[Len(photos)])

----------------------------------------------------------------------------
(* group_photos_by_event *)

\* events[info['date']].append(info) that replaces the list instead
AppendOverwriting(evs, info) ==
    IF \E k \in DOMAIN evs : evs[k].date = info.date
    THEN [k \in DOMAIN evs |->
            IF evs[k].date = info.date
            THEN [evs[k] EXCEPT !.photos = <<info>>]
            ELSE evs[k]]
    ELSE Append(evs, [date |-> info.date, photos |-> <<info>>])

\* events[info['date']].append(info) on a defaultdict(list): a new key is
\* inserted after the existing ones
AppendToEvent(evs, info) ==
    IF \E k \in DOMAIN evs : evs[k].date = info.date
    THEN [k \in DOMAIN evs |->
            IF evs[k].date = info.date
            THEN [evs[k] EXCEPT !.photos = Append(@, info)]
            ELSE evs[k]]
    ELSE Append(evs, [date |-> info.date, photos |-> <<info>>])

RECURSIVE group_photos_by_event(_)
group_photos_by_event(infos) ==
    IF infos = <<>> THEN <<>>
    ELSE AppendToEvent(group_photos_by_event(SubSeq(infos, 1, Len(infos) - 1)),
                       infos[Len(infos)])

----------------------------------------------------------------------------
(* select_top_photos *)

\* a per-event phase that rewrites the score of a survivor as its distance
\* from the best score of its event
RECURSIVE PerEventTopRescored(_, _)
PerEventTopRescored(evs, n) ==
    IF evs = <<>> THEN <<>>
    ELSE LET top == SliceTo(sorted_by_score(evs[Len(evs)].photos), n)
         IN  PerEventTopRescored(SubSeq(evs, 1, Len(evs) - 1), n)
             \o [k \in DOMAIN top |-> [top[k] EXCEPT !.score = top[k].score - top[1].score]]

\* the loop of select_top_photos: selected_photos after every event's
\* sorted_photos[:top_n] was appended, events taken in dict order
RECURSIVE PerEventTop(_, _)
PerEventTop(evs, n) ==
    IF evs = <<>> THEN <<>>
    ELSE PerEventTop(SubSeq(evs, 1, Len(evs) - 1), n)
         \o SliceTo(sorted_by_score(evs[Len(evs)].photos), n)

\* a select_top_photos that caps the pool without ranking it
select_top_photos_unranked(evs, n, g) ==
    SliceTo(PerEventTop(evs, n), g)

select_top_photos(evs, n, g) ==
    SliceTo(sorted_by_score(PerEventTop(evs, n)), g)

----------------------------------------------------------------------------
(* Steps of main after the scan; SpecSelect starts here with arbitrary input *)

GroupPhotos ==
    /\ pc = "group"
    /\ events' = group_photos_by_event(photo_info)
    /\ pc' = "select"
    /\ UNCHANGED <<files, idx, seen_hashes, skipped, photo_info, top_n,
                   global_limit, survivors, selected_photos, copies, report,
                   date_out,
                   location_out,
                   output_folder, first_run, at_test, photo_data>>

SelectTop ==
    /\ pc = "select"
    /\ survivors' = PerEventTop(events, top_n)
    /\ selected_photos' = select_top_photos(events, top_n, global_limit)
    /\ pc' = "copy"
    /\ UNCHANGED <<files, idx, seen_hashes, skipped, photo_info, top_n,
                   global_limit, events, copies, report, date_out,
                   location_out,
                   output_folder, first_run, at_test, photo_data>>

----------------------------------------------------------------------------
(* SpecSelect: the grouper and the selector on arbitrary records *)

\* a record of photo_info; in SpecSelect the path is the scan position
InfoAt(k, ds) == [path |-> k, score |-> ds[2], date |-> ds[1], location |-> None]

GenericInputs ==
    {[k \in DOMAIN s |-> InfoAt(k, s[k])] : s \in SeqsUpTo(Dates \X Scores, MaxPhotos)}

\* three files of one date with scores 10, 90, 50
ScenarioOneEvent ==
    [k \in 1..3 |-> InfoAt(k, <<<<D1, 10>>, <<D1, 90>>, <<D1, 50>>>>[k])]

\* two events whose two best records score 95, 80 and 90, 40
ScenarioTwoEvents ==
    [k \in 1..4 |-> InfoAt(k, <<<<D1, 95>>, <<D1, 80>>, <<D2, 90>>, <<D2, 40>>>>[k])]

InitSelect ==
    /\ pc = "group"
    /\ photo_info \in GenericInputs \cup {ScenarioOneEvent, ScenarioTwoEvents}
    /\ top_n \in Limits
    /\ global_limit \in Limits
    /\ files = <<>>
    /\ idx = 0
    /\ seen_hashes = {}
    /\ skipped = {}
    /\ events = <<>>
    /\ survivors = <<>>
    /\ selected_photos = <<>>
    /\ copies = <<>>
    /\ report = <<>>
    /\ date_out = None
    /\ location_out = None
    /\ output_folder = {}
    /\ first_run = None
    /\ at_test = [w \in ScanWorkers |-> None]
    /\ photo_data = <<>>

NextSelect == GroupPhotos \/ SelectTop

SpecSelect == InitSelect /\ [][NextSelect]_vars

----------------------------------------------------------------------------
(* main: the scan loop, one iteration per file *)

\* the loop body without the seen_hashes test: every image file gets a record
ScanFileNoDedup ==
    /\ pc = "scan"
    /\ idx < Len(files)
    /\ LET f == files[idx + 1]
       IN  IF ~IsImageName(f)
           THEN UNCHANGED <<seen_hashes, skipped, photo_info>>
           ELSE /\ seen_hashes' = seen_hashes \cup {get_image_hash(f)}
                /\ photo_info' = Append(photo_info,
                        [path |-> f.path, score |-> score_image_quality(f),
                         date |-> get_image_date(f),
                         location |-> get_image_location(f)])
                /\ UNCHANGED skipped
    /\ idx' = idx + 1
    /\ UNCHANGED <<pc, files, top_n, global_limit, events, survivors,
                   selected_photos, copies, report, date_out,
                   location_out,
                   output_folder, first_run, at_test, photo_data>>

\* a scan that compares a file with the file before it only
ScanFileAgainstPreviousOnly ==
    /\ pc = "scan"
    /\ idx < Len(files)
    /\ LET f == files[idx + 1]
           img_hash == get_image_hash(f)
       IN  IF ~IsImageName(f)
           THEN UNCHANGED <<seen_hashes, skipped, photo_info>>
           ELSE IF (idx > 0 /\ img_hash = get_image_hash(files[idx]))
           THEN /\ skipped' = skipped \cup {idx + 1}
                /\ UNCHANGED <<seen_hashes, photo_info>>
           ELSE /\ seen_hashes' = seen_hashes \cup {img_hash}
                /\ photo_info' = Append(photo_info,
                        [path |-> f.path, score |-> score_image_quality(f),
                         date |-> get_image_date(f),
                         location |-> get_image_location(f)])
                /\ UNCHANGED skipped
    /\ idx' = idx + 1
    /\ UNCHANGED <<pc, files, top_n, global_limit, events, survivors,
                   selected_photos, copies, report, date_out,
                   location_out,
                   output_folder, first_run, at_test, photo_data>>

ScanFile ==
    /\ pc = "scan"
    /\ idx < Len(files)
    /\ LET f == files[idx + 1]
           img_hash == get_image_hash(f)
       IN  IF ~IsImageName(f)
           THEN UNCHANGED <<seen_hashes, skipped, photo_info>>
           ELSE IF img_hash \in seen_hashes
           THEN /\ skipped' = skipped \cup {idx + 1}
                /\ UNCHANGED <<seen_hashes, photo_info>>
           ELSE /\ seen_hashes' = seen_hashes \cup {img_hash}
                /\ photo_info' = Append(photo_info,
                        [path |-> f.path, score |-> score_image_quality(f),
                         date |-> get_image_date(f),
                         location |-> get_image_location(f)])
                /\ UNCHANGED skipped
    /\ idx' = idx + 1
    /\ UNCHANGED <<pc, files, top_n, global_limit, events, survivors,
                   selected_photos, copies, report, date_out,
                   location_out,
                   output_folder, first_run, at_test, photo_data>>

\* os.walk is exhausted
ScanEnd ==
    /\ pc = "scan"
    /\ idx = Len(files)
    /\ \A w \in ScanWorkers : at_test[w] = None
    /\ pc' = "group"
    /\ UNCHANGED <<files, idx, seen_hashes, skipped, photo_info, top_n,
                   global_limit, events, survivors, selected_photos, copies,
                   report, date_out,
                   location_out,
                   output_folder, first_run, at_test, photo_data>>

----------------------------------------------------------------------------
(* copy_selected_photos and the report *)

\* the characters of the strings the model names
Chars(s) ==
    CASE s = "new" -> <<"n", "e", "w">>
      [] s = "a" -> <<"a">>
      [] s = "a_1" -> <<"a", "_", "1">>
      [] s = ".jpg" -> <<".", "j", "p", "g">>
      [] s = ".JPG" -> <<".", "J", "P", "G">>
      [] s = ".jpeg" -> <<".", "j", "p", "e", "g">>
      [] s = ".png" -> <<".", "p", "n", "g">>
      [] s = ".txt" -> <<".", "t", "x", "t">>
      [] s = "NoLocation" -> <<"N", "o", "L", "o", "c", "a", "t", "i", "o", "n">>

\* a text without its trailing zeros, its first character kept
RECURSIVE rstrip_zeros(_)
rstrip_zeros(text) ==
    IF Len(text) > 1 /\ text[Len(text)] = "0"
    THEN rstrip_zeros(SubSeq(text, 1, Len(text) - 1)) ELSE text

\* str(round(x, 5)) of the f-string of get_image_location, x in units of
\* 1e-5: the shortest repr of the float, exponent form below 1e-4
float_str(u) ==
    IF u < 0 THEN <<"-">> \o (LET v == 0 - u
                              IN  IF v < 10 THEN <<DigitChars[v + 1], "e", "-", "0", "5">>
                                  ELSE str(v \div 100000) \o <<".">>
                                       \o rstrip_zeros(zfill(str(v % 100000), 5)))
    ELSE IF u = 0 THEN <<"0", ".", "0">>
    ELSE IF u < 10 THEN <<DigitChars[u + 1], "e", "-", "0", "5">>
    ELSE str(u \div 100000) \o <<".">> \o rstrip_zeros(zfill(str(u % 100000), 5))

\* info.get('location') or "NoLocation"
location_str(info) == IF info.location = None THEN <<"NoLocation">> ELSE info.location

\* the characters location_str puts in the name
location_text(info) ==
    IF location_str(info) = <<"NoLocation">> THEN Chars("NoLocation")
    ELSE float_str(location_str(info)[1]) \o <<"_">> \o float_str(location_str(info)[3])

\* a name that leaves the rank out
new_name_without_idx(info, rank) ==
    strftime(info.date) \o <<"_">> \o location_text(info) \o <<"_">>
        \o Chars(files[info.path].folder) \o Chars(files[info.path].ext)

\* a name that steps aside when the output folder already holds it
new_name_avoiding_existing(info, rank) ==
    LET name == strftime(info.date) \o <<"_">> \o location_text(info) \o <<"_">>
                    \o Chars(files[info.path].folder) \o <<"_">> \o str(rank)
                    \o Chars(files[info.path].ext)
    IN  IF \E e \in output_folder : e.name = name
        THEN <<"c", "o", "p", "y", "_">> \o name ELSE name

\* f"{date_str}_{location_str}_{folder_name}_{idx}{ext}"
new_name(info, rank) ==
    strftime(info.date) \o <<"_">> \o location_text(info) \o <<"_">>
        \o Chars(files[info.path].folder) \o <<"_">> \o str(rank)
        \o Chars(files[info.path].ext)

\* an index that counts the copies made so far, as copy_all_images counts
idx_of_successes(ok, k) == 1 + Cardinality({j \in 1..(k - 1) : ok[j]})

\* enumerate(selected_photos, start=1): the idx of the k-th record
enumerate_idx(ok, k) == k

\* a loop inside one try block: it ends at the first copy that fails
attempted_until_failure(ok) == {k \in DOMAIN ok : \A j \in 1..(k - 1) : ok[j]}

\* the records the loop reaches: the try block is inside the loop body, so
\* an exception of shutil.copy2 ends one iteration only
attempted(ok) == DOMAIN ok

\* what the loop prints for a record
message(src, dst, copied) ==
    IF copied THEN <<"Copied", src, dst>> ELSE <<"Error copying", src>>

\* the loop of copy_selected_photos on the records `selected`, ok[k] telling
\* whether shutil.copy2 succeeds on the k-th: one entry for each record
\* reached, in order
copy_selected_photos(selected, ok) ==
    [k \in 1..Cardinality(attempted(ok)) |->
        [src |-> selected[k].path,
         dst |-> new_name(selected[k], enumerate_idx(ok, k)),
         ok |-> ok[k],
         printed |-> message(selected[k].path,
                             new_name(selected[k], enumerate_idx(ok, k)), ok[k])]]

\* the output folder after the copies of `attempts` that succeeded:
\* shutil.copy2 creates dst or replaces the file of that name
written(folder, attempts) ==
    LET done == {k \in DOMAIN attempts : attempts[k].ok}
    IN  {e \in folder : \A k \in done : e.name # attempts[k].dst}
        \cup {[name |-> attempts[k].dst, bytes |-> files[attempts[k].src].bytes] :
                 k \in done}

\* the call of copy_selected_photos in main; shutil.copy2 cannot succeed on
\* an unreadable source and may fail on any other (an unwritable
\* destination)
CopySelected ==
    /\ pc = "copy"
    /\ \E ok \in [DOMAIN selected_photos -> BOOLEAN] :
          /\ \A k \in DOMAIN selected_photos :
                ok[k] => files[selected_photos[k].path].readable
          /\ copies' = copy_selected_photos(selected_photos, ok)
          /\ output_folder' =
                written(output_folder, copy_selected_photos(selected_photos, ok))
    /\ pc' = "report"
    /\ UNCHANGED <<files, idx, seen_hashes, skipped, photo_info, top_n,
                   global_limit, events, survivors, selected_photos, report,
                   date_out, location_out, first_run, at_test, photo_data>>

\* pd.DataFrame(selected_photos).to_csv(...): one row per selected record
WriteReport ==
    /\ pc = "report"
    /\ report' = selected_photos
    /\ pc' = "done"
    /\ UNCHANGED <<files, idx, seen_hashes, skipped, photo_info, top_n,
                   global_limit, events, survivors, selected_photos, copies,
                   date_out,
                   location_out,
                   output_folder, first_run, at_test, photo_data>>

----------------------------------------------------------------------------
(* Spec: main over every folder of at most MaxFiles files *)

\* 51 deg 30' 26.46" N, 0 deg 7' 39.936" W
London == <<<<"N">>, <<<<51, 1>>, <<30, 1>>, <<2646, 100>>>>,
            <<"W">>, <<<<0, 1>>, <<7, 1>>, <<39936, 1000>>>>>>

\* contents: a sharp photo with EXIF date and position, a plainer photo
\* without EXIF, and bytes that are no image
Contents ==
    { [bytes |-> "a", decodable |-> TRUE,
       pixels |-> [sharpness |-> 2, brightness |-> 1, contrast |-> 1, megapixels |-> 1],
       exif |-> [status |-> "ok",
                 items |-> <<[tag |-> "DateTimeOriginal", value |-> Stamp(D1)],
                             [tag |-> "GPSInfo", value |-> London]>>]],
      [bytes |-> "b", decodable |-> TRUE,
       pixels |-> [sharpness |-> 1, brightness |-> 1, contrast |-> 1, megapixels |-> 1],
       exif |-> [status |-> "none", items |-> <<>>]],
      [bytes |-> "c", decodable |-> FALSE,
       pixels |-> [sharpness |-> 0, brightness |-> 0, contrast |-> 0, megapixels |-> 0],
       exif |-> [status |-> "error", items |-> <<>>]] }

\* file names: without a date, with 2024-06-02 in it, and one that is no image
Names ==
    { [ext |-> ".jpg", name |-> [dashed |-> <<>>, digits8 |-> <<>>, digits14 |-> <<>>]],
      [ext |-> ".JPG", name |-> [dashed |-> <<D2>>, digits8 |-> <<>>, digits14 |-> <<>>]],
      [ext |-> ".txt", name |-> [dashed |-> <<>>, digits8 |-> <<>>, digits14 |-> <<>>]] }

MakeFile(k, content, readable, nm) ==
    [path |-> k, folder |-> "new", ext |-> nm.ext, readable |-> readable,
     bytes |-> content.bytes, decodable |-> content.decodable,
     pixels |-> content.pixels, exif |-> content.exif,
     name |-> nm.name, mtime |-> D1]

Folders ==
    {[k \in DOMAIN s |-> MakeFile(k, s[k][1], s[k][2], s[k][3])] :
        s \in SeqsUpTo(Contents \X BOOLEAN \X Names, MaxFiles)}

Init ==
    /\ pc = "scan"
    /\ files \in Folders
    /\ idx = 0
    /\ seen_hashes = {}
    /\ skipped = {}
    /\ photo_info = <<>>
    /\ top_n = TOP_PHOTOS_PER_EVENT
    /\ global_limit = GLOBAL_LIMIT
    /\ events = <<>>
    /\ survivors = <<>>
    /\ selected_photos = <<>>
    /\ copies = <<>>
    /\ report = <<>>
    /\ date_out = None
    /\ location_out = None
    /\ output_folder = {}
    /\ first_run = None
    /\ at_test = [w \in ScanWorkers |-> None]
    /\ photo_data = <<>>

Next ==
    \/ ScanFile
    \/ ScanEnd
    \/ GroupPhotos
    \/ SelectTop
    \/ CopySelected
    \/ WriteReport

Spec == Init /\ [][Next]_vars

----------------------------------------------------------------------------
(* SpecDate: get_image_date on one file with arbitrary metadata *)

StampTexts == {Stamp(D1), Stamp(D2), Garbage}

ExifItems ==
    {[tag |-> tg, value |-> v] : tg \in DateTags, v \in StampTexts}
        \cup {[tag |-> "Make", value |-> Garbage]}

\* a dict holds each tag once
ExifDicts ==
    {s \in SeqsUpTo(ExifItems, MaxTags) :
        \A i, j \in DOMAIN s : i # j => s[i].tag # s[j].tag}

ExifChoices ==
    {[status |-> "error", items |-> <<>>], [status |-> "none", items |-> <<>>]}
        \cup {[status |-> "ok", items |-> s] : s \in ExifDicts}

\* 14 contiguous digits contain 8 contiguous digits
NameChoices ==
    {nm \in [dashed : SeqsUpTo({D1, D2, BadYMD}, MaxMatches),
             digits8 : SeqsUpTo({D1, D2, BadYMD}, MaxMatches),
             digits14 : SeqsUpTo({Stamp(D1), Stamp(D2), BadYMD \o <<0, 0, 0>>}, MaxMatches)] :
        nm.digits14 # <<>> => nm.digits8 # <<>>}

InitDate ==
    /\ pc = "get_image_date"
    /\ \E ex \in ExifChoices, nm \in NameChoices, mt \in Dates :
          files = <<[path |-> 1, folder |-> "new", ext |-> ".jpg",
                     readable |-> TRUE, bytes |-> "a", decodable |-> TRUE,
                     pixels |-> [sharpness |-> 1, brightness |-> 1,
                                 contrast |-> 1, megapixels |-> 1],
                     exif |-> ex, name |-> nm, mtime |-> mt]>>
    /\ idx = 0
    /\ seen_hashes = {}
    /\ skipped = {}
    /\ photo_info = <<>>
    /\ top_n = TOP_PHOTOS_PER_EVENT
    /\ global_limit = GLOBAL_LIMIT
    /\ events = <<>>
    /\ survivors = <<>>
    /\ selected_photos = <<>>
    /\ copies = <<>>
    /\ report = <<>>
    /\ date_out = None
    /\ location_out = None
    /\ output_folder = {}
    /\ first_run = None
    /\ at_test = [w \in ScanWorkers |-> None]
    /\ photo_data = <<>>

GetImageDate ==
    /\ pc = "get_image_date"
    /\ IF get_image_date_raises(files[1]) = None
       THEN /\ date_out' = get_image_date(files[1])
            /\ pc' = "date_returned"
       ELSE /\ date_out' = None
            /\ pc' = "raised"
    /\ UNCHANGED <<files, idx, seen_hashes, skipped, photo_info, top_n,
                   global_limit, events, survivors, selected_photos, copies,
                   report, location_out,
                   output_folder, first_run, at_test, photo_data>>

NextDate == GetImageDate

SpecDate == InitDate /\ [][NextDate]_vars

----------------------------------------------------------------------------
(* SpecName: the file-name step of get_image_date, on file names with      *)
(* several matches per pattern                                             *)

\* EXIF blocks that end the first step in each of its ways
ExifFew ==
    {[status |-> "error", items |-> <<>>],
     [status |-> "none", items |-> <<>>],
     [status |-> "ok", items |-> <<[tag |-> "DateTimeOriginal", value |-> Stamp(D1)]>>],
     [status |-> "ok", items |-> <<[tag |-> "DateTime", value |-> Garbage]>>],
     [status |-> "ok", items |-> <<[tag |-> "Make", value |-> Garbage]>>]}

\* file names with up to n matches per pattern
NamesUpTo(n) ==
    {nm \in [dashed : SeqsUpTo({D1, D2, BadYMD}, n),
             digits8 : SeqsUpTo({D1, D2, BadYMD}, n),
             digits14 : SeqsUpTo({Stamp(D1), Stamp(D2), BadYMD \o <<0, 0, 0>>}, n)] :
        nm.digits14 # <<>> => nm.digits8 # <<>>}

\* an existing, readable .jpg with this metadata
MetaFile(ex, nm, mt) ==
    [path |-> 1, folder |-> "new", ext |-> ".jpg", readable |-> TRUE,
     bytes |-> "a", decodable |-> TRUE,
     pixels |-> [sharpness |-> 1, brightness |-> 1, contrast |-> 1, megapixels |-> 1],
     exif |-> ex, name |-> nm, mtime |-> mt]

InitName ==
    /\ pc = "get_image_date"
    /\ \E ex \in ExifFew, nm \in NamesUpTo(MaxNameMatches) :
          files = <<MetaFile(ex, nm, D3)>>
    /\ idx = 0
    /\ seen_hashes = {}
    /\ skipped = {}
    /\ photo_info = <<>>
    /\ top_n = TOP_PHOTOS_PER_EVENT
    /\ global_limit = GLOBAL_LIMIT
    /\ events = <<>>
    /\ survivors = <<>>
    /\ selected_photos = <<>>
    /\ copies = <<>>
    /\ report = <<>>
    /\ date_out = None
    /\ location_out = None
    /\ output_folder = {}
    /\ first_run = None
    /\ at_test = [w \in ScanWorkers |-> None]
    /\ photo_data = <<>>

SpecName == InitName /\ [][NextDate]_vars

----------------------------------------------------------------------------
(* SpecMeta: get_image_date then get_image_location on one file, as the    *)
(* scan loop calls them, over EXIF blocks with and without GPS data        *)

ZeroDMS == <<<<0, 1>>, <<0, 1>>, <<0, 1>>>>
BrokenDMS == <<<<51, 1>>, <<30, 0>>, <<0, 1>>>>

TinyDMS == <<<<0, 1>>, <<0, 1>>, <<1, 1000>>>>

\* a coordinate: missing, 0 degrees, one that rounds to 0, a London one, one
\* with a zero denominator
Coordinates == {None, ZeroDMS, TinyDMS, London[2], London[4], BrokenDMS}

GpsChoices ==
    {<<ns, lat, ew, lon>> : ns \in {<<"N">>, <<"S">>}, lat \in Coordinates,
                            ew \in {<<"E">>, <<"W">>}, lon \in Coordinates}

MetaExifs ==
    {[status |-> "error", items |-> <<>>], [status |-> "none", items |-> <<>>]}
    \cup {[status |-> "ok", items |-> d \o g] :
            d \in {<<>>, <<[tag |-> "DateTimeOriginal", value |-> Stamp(D1)]>>,
                   <<[tag |-> "DateTime", value |-> Garbage]>>},
            g \in {<<>>} \cup {<<[tag |-> "GPSInfo", value |-> v]>> : v \in GpsChoices}}

\* file names with no match, a date or a non-date for each pattern
MetaNames ==
    {nm \in [dashed : {<<>>, <<D2>>, <<BadYMD>>},
             digits8 : {<<>>, <<D2>>, <<BadYMD>>},
             digits14 : {<<>>, <<Stamp(D2)>>, <<BadYMD \o <<0, 0, 0>>>>}] :
        nm.digits14 # <<>> => nm.digits8 # <<>>}

InitMeta ==
    /\ pc = "get_image_date"
    /\ \E ex \in MetaExifs, nm \in MetaNames, rd \in BOOLEAN :
          files = <<[MetaFile(ex, nm, D3) EXCEPT !.readable = rd]>>
    /\ idx = 0
    /\ seen_hashes = {}
    /\ skipped = {}
    /\ photo_info = <<>>
    /\ top_n = TOP_PHOTOS_PER_EVENT
    /\ global_limit = GLOBAL_LIMIT
    /\ events = <<>>
    /\ survivors = <<>>
    /\ selected_photos = <<>>
    /\ copies = <<>>
    /\ report = <<>>
    /\ date_out = None
    /\ location_out = None
    /\ output_folder = {}
    /\ first_run = None
    /\ at_test = [w \in ScanWorkers |-> None]
    /\ photo_data = <<>>

GetImageLocation ==
    /\ pc = "date_returned"
    /\ IF get_image_location_raises(files[1]) = None
       THEN /\ location_out' = get_image_location(files[1])
            /\ pc' = "location_returned"
       ELSE /\ location_out' = None
            /\ pc' = "raised"
    /\ UNCHANGED <<files, idx, seen_hashes, skipped, photo_info, top_n,
                   global_limit, events, survivors, selected_photos, copies,
                   report, date_out, output_folder, first_run, at_test, photo_data>>

NextMeta == GetImageDate \/ GetImageLocation

SpecMeta == InitMeta /\ [][NextMeta]_vars

----------------------------------------------------------------------------
(* SpecCopy: copy_selected_photos and the report, on the selection main    *)
(* makes of up to MaxSelected readable images of different content that    *)
(* share dates, locations, folder names and extensions                     *)

\* where a source lies and what it holds: originating folder name, EXIF
\* block, modification day
CopyKinds ==
    {[folder |-> "a", exif |-> [status |-> "none", items |-> <<>>], mtime |-> D1],
     [folder |-> "a_1", exif |-> [status |-> "none", items |-> <<>>], mtime |-> D1],
     [folder |-> "a", exif |-> [status |-> "none", items |-> <<>>], mtime |-> D2],
     [folder |-> "a",
      exif |-> [status |-> "ok", items |-> <<[tag |-> "GPSInfo", value |-> London]>>],
      mtime |-> D1]}

\* contents that differ from file to file
DistinctBytes == <<"a", "b", "c", "d", "e">>

CopyFile(k, kind) ==
    [MetaFile(kind.exif, [dashed |-> <<>>, digits8 |-> <<>>, digits14 |-> <<>>],
              kind.mtime)
        EXCEPT !.path = k, !.folder = kind.folder, !.bytes = DistinctBytes[k]]

\* the record the scan loop appends for a file
photo_record(f) ==
    [path |-> f.path, score |-> score_image_quality(f),
     date |-> get_image_date(f), location |-> get_image_location(f)]

InitCopy ==
    /\ pc = "copy"
    /\ \E kinds \in SeqsUpTo(CopyKinds, MaxSelected) :
          /\ files = [k \in DOMAIN kinds |-> CopyFile(k, kinds[k])]
          /\ photo_info = [k \in DOMAIN kinds |-> photo_record(CopyFile(k, kinds[k]))]
    /\ idx = Len(files)
    /\ seen_hashes = {get_image_hash(files[k]) : k \in DOMAIN files}
    /\ skipped = {}
    /\ top_n = TOP_PHOTOS_PER_EVENT
    /\ global_limit = GLOBAL_LIMIT
    /\ events = group_photos_by_event(photo_info)
    /\ survivors = PerEventTop(events, top_n)
    /\ selected_photos = select_top_photos(events, top_n, global_limit)
    /\ copies = <<>>
    /\ report = <<>>
    /\ date_out = None
    /\ location_out = None
    /\ output_folder = {}
    /\ first_run = None
    /\ at_test = [w \in ScanWorkers |-> None]
    /\ photo_data = <<>>

NextCopy == CopySelected \/ WriteReport

SpecCopy == InitCopy /\ [][NextCopy]_vars

----------------------------------------------------------------------------
(* SpecCategorise: main of categorise_photos.py over a listing of at most  *)
(* MaxListed files.  A file has the fields of photo_sort's files and       *)
(* face_match: one of its faces matches a reference face.                  *)

\* raised by detect_faces_and_match: face_recognition.load_image_file opens
\* and decodes the file, and nothing around it catches
detect_faces_and_match_raises(f) ==
    IF ~f.readable THEN <<"OSError">>
    ELSE IF ~f.decodable THEN <<"UnidentifiedImageError">>
    ELSE None

detect_faces_and_match(f) == f.face_match

\* quality_score + (1000 if has_face_match else 0), in tenths of a point;
\* score_image_quality is the one of photo_sort.py
combined_score(f) ==
    score_image_quality(f)
        + (IF detect_faces_and_match(f) THEN 10 * FACE_MATCH_BONUS ELSE 0)

\* get_image_date of categorise_photos.py: the DateTimeOriginal tag, else
\* the modification time; a strptime that raises ends the try block
categorise_get_image_date(f) ==
    IF ~HasExif(f) THEN f.mtime
    ELSE LET hits == {k \in DOMAIN f.exif.items :
                        f.exif.items[k].tag = "DateTimeOriginal"}
         IN  IF hits = {} THEN f.mtime
             ELSE LET k == CHOOSE j \in hits : \A i \in hits : j <= i
                  IN  IF strptime_date(f.exif.items[k].value, 6) = None
                      THEN f.mtime
                      ELSE strptime_date(f.exif.items[k].value, 6)

\* a selector that cuts the whole list once more to top_n
categorise_select_top_photos_capped(evs, n) == SliceTo(PerEventTop(evs, n), n)

\* select_top_photos(events, top_n) of categorise_photos.py: the best top_n
\* of each event, event after event
categorise_select_top_photos(evs, n) == PerEventTop(evs, n)

\* the scan loop body of main
CategoriseScanFile ==
    /\ pc = "categorise_scan"
    /\ idx < Len(files)
    /\ LET f == files[idx + 1]
       IN  IF ~IsImageName(f)
           THEN /\ idx' = idx + 1
                /\ UNCHANGED <<pc, photo_info>>
           ELSE IF detect_faces_and_match_raises(f) # None
           THEN /\ pc' = "crashed"
                /\ UNCHANGED <<idx, photo_info>>
           ELSE /\ photo_info' = Append(photo_info,
                        [path |-> f.path, score |-> combined_score(f),
                         date |-> categorise_get_image_date(f)])
                /\ idx' = idx + 1
                /\ pc' = pc
    /\ UNCHANGED <<files, seen_hashes, skipped, top_n, global_limit, events,
                   survivors, selected_photos, copies, report, date_out,
                   location_out,
                   output_folder, first_run, at_test, photo_data>>

\* os.listdir is exhausted: group_photos_by_event
CategoriseGroup ==
    /\ pc = "categorise_scan"
    /\ idx = Len(files)
    /\ events' = group_photos_by_event(photo_info)
    /\ pc' = "categorise_select"
    /\ UNCHANGED <<files, idx, seen_hashes, skipped, photo_info, top_n,
                   global_limit, survivors, selected_photos, copies, report,
                   date_out, location_out,
                   output_folder, first_run, at_test, photo_data>>

CategoriseSelect ==
    /\ pc = "categorise_select"
    /\ selected_photos' = categorise_select_top_photos(events, top_n)
    /\ survivors' = selected_photos'
    /\ pc' = "categorise_copy"
    /\ UNCHANGED <<files, idx, seen_hashes, skipped, photo_info, top_n,
                   global_limit, events, copies, report, date_out,
                   location_out,
                   output_folder, first_run, at_test, photo_data>>

\* copy_selected_photos of categorise_photos.py: Image.open(src).save(dst)
\* inside a try of the loop body, dst being the file name of src in the
\* output folder
CategoriseCopy ==
    /\ pc = "categorise_copy"
    /\ \E ok \in [DOMAIN selected_photos -> BOOLEAN] :
          /\ \A k \in DOMAIN selected_photos :
                ok[k] => /\ files[selected_photos[k].path].readable
                         /\ files[selected_photos[k].path].decodable
          /\ copies' = [k \in DOMAIN selected_photos |->
                          [src |-> selected_photos[k].path,
                           dst |-> <<"basename", selected_photos[k].path>>,
                           ok |-> ok[k],
                           printed |-> IF ok[k] THEN None
                                       ELSE <<"Error copying", selected_photos[k].path>>]]
    /\ pc' = "categorise_report"
    /\ UNCHANGED <<files, idx, seen_hashes, skipped, photo_info, top_n,
                   global_limit, events, survivors, selected_photos, report,
                   date_out, location_out,
                   output_folder, first_run, at_test, photo_data>>

\* pd.DataFrame(selected_photos).to_csv(...)
CategoriseReport ==
    /\ pc = "categorise_report"
    /\ report' = selected_photos
    /\ pc' = "done"
    /\ UNCHANGED <<files, idx, seen_hashes, skipped, photo_info, top_n,
                   global_limit, events, survivors, selected_photos, copies,
                   date_out, location_out,
                   output_folder, first_run, at_test, photo_data>>

\* a decodable image full of fine detail: the variance of its Laplacian is
\* 3000, so its quality score alone is above 1000
SharpContent ==
    [bytes |-> "s", decodable |-> TRUE,
     pixels |-> [sharpness |-> 3000, brightness |-> 1, contrast |-> 1, megapixels |-> 1],
     exif |-> [status |-> "none", items |-> <<>>]]

\* os.listdir(INPUT_FOLDER)
Listings ==
    {[k \in DOMAIN s |->
        [path |-> k, folder |-> "new", ext |-> s[k][3].ext, readable |-> s[k][2],
         bytes |-> s[k][1].bytes, decodable |-> s[k][1].decodable,
         pixels |-> s[k][1].pixels, exif |-> s[k][1].exif,
         name |-> s[k][3].name, mtime |-> D2,
         face_match |-> s[k][4] /\ s[k][2] /\ s[k][1].decodable]] :
        s \in SeqsUpTo((Contents \cup {SharpContent}) \X BOOLEAN \X Names \X BOOLEAN,
                       MaxListed)}

InitCategorise ==
    /\ pc = "categorise_scan"
    /\ files \in Listings
    /\ idx = 0
    /\ seen_hashes = {}
    /\ skipped = {}
    /\ photo_info = <<>>
    /\ top_n = CATEGORISE_TOP_PHOTOS_PER_EVENT
    /\ global_limit = GLOBAL_LIMIT
    /\ events = <<>>
    /\ survivors = <<>>
    /\ selected_photos = <<>>
    /\ copies = <<>>
    /\ report = <<>>
    /\ date_out = None
    /\ location_out = None
    /\ output_folder = {}
    /\ first_run = None
    /\ at_test = [w \in ScanWorkers |-> None]
    /\ photo_data = <<>>

NextCategorise ==
    \/ CategoriseScanFile
    \/ CategoriseGroup
    \/ CategoriseSelect
    \/ CategoriseCopy
    \/ CategoriseReport

SpecCategorise == InitCategorise /\ [][NextCategorise]_vars

----------------------------------------------------------------------------
(* SpecConfig: main with the two limits of the configuration block set to  *)
(* any value of Limits, over folders of at most MaxConfigFiles readable    *)
(* images                                                                  *)

\* readable images of the three contents, named without a date or with
\* 2024-06-02
ConfigFolders ==
    {[k \in DOMAIN s |-> MakeFile(k, s[k][1], TRUE, s[k][2])] :
        s \in SeqsUpTo(Contents \X {nm \in Names : nm.ext # ".txt"}, MaxConfigFiles)}

InitConfig ==
    /\ pc = "scan"
    /\ files \in ConfigFolders
    /\ idx = 0
    /\ seen_hashes = {}
    /\ skipped = {}
    /\ photo_info = <<>>
    /\ top_n \in Limits
    /\ global_limit \in Limits
    /\ events = <<>>
    /\ survivors = <<>>
    /\ selected_photos = <<>>
    /\ copies = <<>>
    /\ report = <<>>
    /\ date_out = None
    /\ location_out = None
    /\ output_folder = {}
    /\ first_run = None
    /\ at_test = [w \in ScanWorkers |-> None]
    /\ photo_data = <<>>

SpecConfig == InitConfig /\ [][Next]_vars

----------------------------------------------------------------------------
\* the scan loop of main run to its end on the files fs, in that order
RECURSIVE scan_loop(_)
scan_loop(fs) ==
    IF fs = <<>> THEN [seen_hashes |-> {}, photo_info |-> <<>>]
    ELSE LET before == scan_loop(SubSeq(fs, 1, Len(fs) - 1))
             f == fs[Len(fs)]
         IN  IF ~IsImageName(f) THEN before
             ELSE IF get_image_hash(f) \in before.seen_hashes THEN before
             ELSE [seen_hashes |-> before.seen_hashes \cup {get_image_hash(f)},
                   photo_info |-> Append(before.photo_info, photo_record(f))]

----------------------------------------------------------------------------
(* SpecTwice: main run on a folder, and then once more on the same folder  *)
(* with the same output folder, which now holds what the first run wrote   *)

\* main is started again after it has ended: the input folder is as it
\* was, the output folder and the report stay on disk, main's locals are
\* new.  What the first run did is kept in first_run.
RunAgain ==
    /\ pc = "done"
    /\ first_run = None
    /\ first_run' = [selected_photos |-> selected_photos,
                     names |-> [k \in DOMAIN copies |-> copies[k].dst],
                     report |-> report]
    /\ pc' = "scan"
    /\ idx' = 0
    /\ seen_hashes' = {}
    /\ skipped' = {}
    /\ photo_info' = <<>>
    /\ events' = <<>>
    /\ survivors' = <<>>
    /\ selected_photos' = <<>>
    /\ copies' = <<>>
    /\ UNCHANGED <<files, top_n, global_limit, report, date_out, location_out,
                   output_folder, at_test, photo_data>>

InitTwice ==
    /\ pc = "scan"
    /\ files \in ConfigFolders
    /\ idx = 0
    /\ seen_hashes = {}
    /\ skipped = {}
    /\ photo_info = <<>>
    /\ top_n = TOP_PHOTOS_PER_EVENT
    /\ global_limit = GLOBAL_LIMIT
    /\ events = <<>>
    /\ survivors = <<>>
    /\ selected_photos = <<>>
    /\ copies = <<>>
    /\ report = <<>>
    /\ date_out = None
    /\ location_out = None
    /\ output_folder = {}
    /\ first_run = None
    /\ at_test = [w \in ScanWorkers |-> None]
    /\ photo_data = <<>>

NextTwice == Next \/ RunAgain

SpecTwice == InitTwice /\ [][NextTwice]_vars

----------------------------------------------------------------------------
(* SpecScan: the scan of main with the membership test on seen_hashes and  *)
(* the insertion as two steps of the thread that runs the loop             *)

\* lines 136-142: a thread takes the next file, hashes it and tests the
\* hash against seen_hashes; a duplicate is skipped, a first-seen file is
\* held for the insertion
ScanTest(w) ==
    /\ pc = "scan"
    /\ at_test[w] = None
    /\ idx < Len(files)
    /\ LET f == files[idx + 1]
       IN  IF ~IsImageName(f)
           THEN UNCHANGED <<skipped, at_test, photo_data>>
           ELSE IF get_image_hash(f) \in seen_hashes
           THEN /\ skipped' = skipped \cup {idx + 1}
                /\ UNCHANGED at_test
           ELSE /\ at_test' = [at_test EXCEPT ![w] = <<idx + 1>>]
                /\ UNCHANGED skipped
    /\ idx' = idx + 1
    /\ UNCHANGED <<pc, files, seen_hashes, photo_info, top_n, global_limit,
                   events, survivors, selected_photos, copies, report,
                   date_out, location_out, output_folder, first_run,
                   photo_data>>

\* lines 143-148: the thread adds the hash of the file it holds and
\* appends the record
ScanInsert(w) ==
    /\ pc = "scan"
    /\ at_test[w] # None
    /\ LET f == files[at_test[w][1]]
       IN  /\ seen_hashes' = seen_hashes \cup {get_image_hash(f)}
           /\ photo_info' = Append(photo_info, photo_record(f))
    /\ at_test' = [at_test EXCEPT ![w] = None]
    /\ UNCHANGED <<pc, files, idx, skipped, top_n, global_limit, events,
                   survivors, selected_photos, copies, report, date_out,
                   location_out, output_folder, first_run,
                   photo_data>>

NextScan ==
    \/ \E w \in ScanWorkers : ScanTest(w)
    \/ \E w \in ScanWorkers : ScanInsert(w)
    \/ ScanEnd
    \/ GroupPhotos
    \/ SelectTop
    \/ CopySelected
    \/ WriteReport

SpecScan == InitTwice /\ [][NextScan]_vars

----------------------------------------------------------------------------
(* SpecTopN: grouping and selection without a global limit, on arbitrary   *)
(* records and any per-event limit: select_top_photos of photo_sort.py     *)
(* called with a global limit that is none, and select_top_photos of       *)
(* categorise_photos.py, which has no such parameter                       *)

InitTopN ==
    /\ pc \in {"group", "categorise_scan"}
    /\ photo_info \in GenericInputs \cup {ScenarioOneEvent, ScenarioTwoEvents}
    /\ top_n \in Limits
    /\ global_limit = NoLimit
    /\ files = <<>>
    /\ idx = 0
    /\ seen_hashes = {}
    /\ skipped = {}
    /\ events = <<>>
    /\ survivors = <<>>
    /\ selected_photos = <<>>
    /\ copies = <<>>
    /\ report = <<>>
    /\ date_out = None
    /\ location_out = None
    /\ output_folder = {}
    /\ first_run = None
    /\ at_test = [w \in ScanWorkers |-> None]
    /\ photo_data = <<>>

NextTopN == GroupPhotos \/ SelectTop \/ CategoriseGroup \/ CategoriseSelect

SpecTopN == InitTopN /\ [][NextTopN]_vars

----------------------------------------------------------------------------
(* SpecCopyAll: copy_all_images, the entry point the script runs, on the   *)
(* folders of SpecConfig                                                   *)

\* the positions of the image files of fs, in os.walk order
RECURSIVE images_of(_)
images_of(fs) ==
    IF fs = <<>> THEN <<>>
    ELSE images_of(SubSeq(fs, 1, Len(fs) - 1))
         \o (IF IsImageName(fs[Len(fs)]) THEN <<Len(fs)>> ELSE <<>>)

\* the loop of copy_all_images on the files fs, ok[k] telling whether
\* shutil.copy2 succeeds on the k-th image: idx starts at 1 and goes up
\* after a copy that succeeded only
copy_all_images(fs, ok) ==
    [k \in DOMAIN images_of(fs) |->
        LET f == fs[images_of(fs)[k]]
            i == 1 + Cardinality({j \in 1..(k - 1) : ok[j]})
        IN  [src |-> f.path,
             dst |-> new_name(photo_record(f), i),
             ok |-> ok[k],
             printed |-> message(f.path, new_name(photo_record(f), i), ok[k])]]

\* the call of copy_all_images
CopyAllImages ==
    /\ pc = "copy_all"
    /\ \E ok \in [DOMAIN images_of(files) -> BOOLEAN] :
          /\ \A k \in DOMAIN ok : ok[k] => files[images_of(files)[k]].readable
          /\ copies' = copy_all_images(files, ok)
          /\ output_folder' = written(output_folder, copy_all_images(files, ok))
    /\ idx' = Len(files)
    /\ pc' = "done"
    /\ UNCHANGED <<files, seen_hashes, skipped, photo_info, top_n,
                   global_limit, events, survivors, selected_photos, report,
                   date_out, location_out, first_run, at_test, photo_data>>

InitCopyAll ==
    /\ pc = "copy_all"
    /\ files \in ConfigFolders
    /\ idx = 0
    /\ seen_hashes = {}
    /\ skipped = {}
    /\ photo_info = <<>>
    /\ top_n = NoLimit
    /\ global_limit = NoLimit
    /\ events = <<>>
    /\ survivors = <<>>
    /\ selected_photos = <<>>
    /\ copies = <<>>
    /\ report = <<>>
    /\ date_out = None
    /\ location_out = None
    /\ output_folder = {}
    /\ first_run = None
    /\ at_test = [w \in ScanWorkers |-> None]
    /\ photo_data = <<>>

NextCopyAll == CopyAllImages

SpecCopyAll == InitCopyAll /\ [][NextCopyAll]_vars

----------------------------------------------------------------------------
(* Vocabulary of the properties *)

ScanDone == pc \in {"group", "select", "copy", "report", "done"}
Grouped == pc \in {"select", "copy", "report", "done"}
SelectionDone == pc \in {"copy", "report", "done"}

\* position of a record in the scan (records of photo_info are pairwise distinct)
ScanPos(r) == CHOOSE k \in DOMAIN photo_info : photo_info[k] = r

\* a ranks before b: higher score, or equal score and scanned earlier
RanksBefore(a, b) ==
    \/ a.score > b.score
    \/ a.score = b.score /\ ScanPos(a) < ScanPos(b)

ScoresOf(s) == [k \in DOMAIN s |-> s[k].score]

OfDate(s, d) == LET Test(r) == r.date = d IN SelectSeq(s, Test)

\* the files main looks at: those with an image extension
Candidates == {k \in DOMAIN files : IsImageName(files[k])}

\* the first candidate in scan order with the fingerprint of candidate k
FirstWithHashOf(k) ==
    LET same == {j \in Candidates : get_image_hash(files[j]) = get_image_hash(files[k])}
    IN  CHOOSE j \in same : \A i \in same : j <= i

PathsOf(s) == {s[k].path : k \in DOMAIN s}

DateReturned == pc = "date_returned"

\* the embedded date tags of a file whose value is a timestamp
ParsableTags(f) ==
    IF ~HasExif(f) THEN {}
    ELSE {f.exif.items[k].tag : k \in
            {j \in DOMAIN f.exif.items :
                /\ f.exif.items[j].tag \in DateTags
                /\ strptime_date(f.exif.items[j].value, 6) # None}}

TagDate(f, tg) ==
    LET k == CHOOSE j \in DOMAIN f.exif.items : f.exif.items[j].tag = tg
    IN  strptime_date(f.exif.items[k].value, 6)

\* the date of the first file-name pattern, in the order YYYY-MM-DD,
\* 8 digits, 14 digits, whose first match is a date
FileNameDate(f) ==
    IF PatternDate(f.name.dashed, 3) # None THEN PatternDate(f.name.dashed, 3)
    ELSE IF PatternDate(f.name.digits8, 3) # None THEN PatternDate(f.name.digits8, 3)
    ELSE PatternDate(f.name.digits14, 6)

----------------------------------------------------------------------------
(* C1: with limits N >= 0 and G >= 0 the output of select_top_photos holds *)
(* at most N records of any one capture date and at most G records.        *)
Thm_C1_Caps ==
    (SelectionDone /\ top_n >= 0 /\ global_limit >= 0) =>
        /\ Len(selected_photos) <= global_limit
        /\ \A d \in {photo_info[k].date : k \in DOMAIN photo_info} :
              Len(OfDate(selected_photos, d)) <= top_n

\* both caps bind: an event larger than N, a pool larger than G
Wit_C1_BothCapsBind ==
    /\ SelectionDone
    /\ top_n >= 1
    /\ global_limit >= 1
    /\ \E k \in DOMAIN events : Len(events[k].photos) > top_n
    /\ Len(survivors) > global_limit
    /\ Len(selected_photos) = global_limit
    /\ \E d \in Dates : Len(OfDate(selected_photos, d)) = top_n

(* C4: in the final output no selected record has a strictly lower score   *)
(* than an excluded record of the same capture date.                       *)
Thm_C4_NoLowerThanExcludedSameEvent ==
    SelectionDone =>
        \A a \in Range(selected_photos) :
            \A b \in Range(photo_info) \ Range(selected_photos) :
                a.date = b.date => a.score >= b.score

\* a date with a selected record, a record cut by the per-event cap and a
\* record cut by the global cap, both scoring strictly lower
Wit_C4_CutByBothPhases ==
    /\ SelectionDone
    /\ \E a \in Range(selected_photos) :
          /\ \E b \in Range(photo_info) \ Range(survivors) :
                b.date = a.date /\ b.score < a.score
          /\ \E c \in Range(survivors) \ Range(selected_photos) :
                c.date = a.date /\ c.score < a.score

(* C5: phase 2 returns the first G records of the score-descending order   *)
(* of the pooled per-event survivors: the output is ranked, has            *)
(* min(G, |pool|) records of the pool, and every survivor it drops scores  *)
(* no higher than any record it keeps; 95,80 and 90,40 under G = 2 give    *)
(* 95, 90.                                                                 *)
Thm_C5_GlobalPhaseKeepsBest ==
    (SelectionDone /\ global_limit >= 0) =>
        /\ Len(selected_photos) = Min(global_limit, Len(survivors))
        /\ Range(selected_photos) \subseteq Range(survivors)
        /\ \A i, j \in DOMAIN selected_photos :
              i < j => selected_photos[i].score >= selected_photos[j].score
        /\ \A s \in Range(survivors) \ Range(selected_photos) :
              \A t \in Range(selected_photos) : s.score <= t.score
        /\ (photo_info = ScenarioTwoEvents /\ top_n = 2 /\ global_limit = 2)
              => ScoresOf(selected_photos) = <<95, 90>>

Wit_C5_ScenarioTwoEvents ==
    /\ SelectionDone
    /\ photo_info = ScenarioTwoEvents
    /\ top_n = 2
    /\ global_limit = 2
    /\ ScoresOf(survivors) = <<95, 80, 90, 40>>
    /\ ScoresOf(selected_photos) = <<95, 90>>

(* C6: two records of equal score that are both in the output stand in     *)
(* the output in the order they have in the scan, also when they belong    *)
(* to different events.                                                    *)
Cex_C6_TiesInScanOrder ==
    SelectionDone =>
        \A i, j \in DOMAIN selected_photos :
            (i < j /\ selected_photos[i].score = selected_photos[j].score)
                => ScanPos(selected_photos[i]) < ScanPos(selected_photos[j])

(* C7: phase 1 keeps of each event the first min(N, size) records of its   *)
(* score-descending order with ties in scan order; scores 10, 90, 50 under *)
(* N = 2 give the 90 then the 50.                                          *)
Thm_C7_PerEventPhase ==
    (SelectionDone /\ top_n >= 0) =>
        /\ \A e \in Range(events) :
              LET kept == OfDate(survivors, e.date)
              IN  /\ Len(kept) = Min(top_n, Len(e.photos))
                  /\ Range(kept) \subseteq Range(e.photos)
                  /\ \A i, j \in DOMAIN kept : i < j => RanksBefore(kept[i], kept[j])
                  /\ \A x \in Range(e.photos) \ Range(kept) :
                        \A y \in Range(kept) : RanksBefore(y, x)
        /\ \A r \in Range(survivors) : \E e \in Range(events) : e.date = r.date
        /\ (photo_info = ScenarioOneEvent /\ top_n = 2)
              => ScoresOf(survivors) = <<90, 50>>

Wit_C7_ScenarioOneEvent ==
    /\ SelectionDone
    /\ photo_info = ScenarioOneEvent
    /\ top_n = 2
    /\ ScoresOf(survivors) = <<90, 50>>

(* C8: group_photos_by_event partitions its input: the keys are distinct,  *)
(* each group is non-empty and holds exactly the records of its date in    *)
(* scan order, every record's date is a key, and no input gives no group.  *)
Thm_C8_GroupingPartitions ==
    Grouped =>
        /\ \A i, j \in DOMAIN events : i # j => events[i].date # events[j].date
        /\ \A g \in Range(events) :
              /\ g.photos # <<>>
              /\ g.photos = OfDate(photo_info, g.date)
        /\ \A r \in Range(photo_info) : \E g \in Range(events) : g.date = r.date
        /\ photo_info = <<>> => events = <<>>

\* two events whose records are interleaved in the scan
Wit_C8_InterleavedEvents ==
    /\ Grouped
    /\ Len(photo_info) >= 3
    /\ photo_info[1].date = D1
    /\ photo_info[2].date = D2
    /\ photo_info[3].date = D1
    /\ Len(events) = 2
    /\ Len(events[1].photos) >= 2

(* C2: after the scan loop photo_info holds exactly one record per        *)
(* fingerprint value that get_image_hash returned for a candidate file,    *)
(* the record of the first such file in scan order; a later file with the  *)
(* same fingerprint is not selected, not copied and not in the report.     *)
Thm_C2_OneRecordPerFingerprint ==
    ScanDone =>
        /\ PathsOf(photo_info) = {FirstWithHashOf(k) : k \in Candidates}
        /\ \A i, j \in DOMAIN photo_info :
              i # j => get_image_hash(files[photo_info[i].path])
                         # get_image_hash(files[photo_info[j].path])
        /\ \A i, j \in DOMAIN photo_info :
              i < j => photo_info[i].path < photo_info[j].path
        /\ \A k \in Candidates :
              k # FirstWithHashOf(k) =>
                  /\ k \in skipped
                  /\ k \notin PathsOf(selected_photos)
                  /\ k \notin {copies[c].src : c \in DOMAIN copies}
                  /\ k \notin PathsOf(report)

\* two byte-identical readable files: the first is copied and reported, the
\* second was skipped
Wit_C2_SecondCopyOfSameBytesDropped ==
    /\ pc = "done"
    /\ \E k1, k2 \in Candidates :
          /\ k1 < k2
          /\ files[k1].readable
          /\ files[k2].readable
          /\ files[k1].bytes = files[k2].bytes
          /\ k1 \in PathsOf(report)
          /\ \E c \in DOMAIN copies : copies[c].src = k1 /\ copies[c].ok
          /\ k2 \in skipped
          /\ k2 \notin PathsOf(report)

(* C3: a file whose fingerprinting failed is never taken for a duplicate:  *)
(* every unreadable candidate file has its own record in photo_info and    *)
(* none is skipped by the seen-fingerprint test.                           *)
Cex_C3_UnreadableNeverDeduplicated ==
    ScanDone =>
        \A k \in Candidates :
            ~files[k].readable =>
                /\ k \in PathsOf(photo_info)
                /\ k \notin skipped

(* C9: get_image_date takes the embedded tag, then the file-name pattern,  *)
(* then the modification time, and the first that succeeds wins: a         *)
(* parsable embedded tag is used whatever the file name says, a file-name  *)
(* date only when no embedded tag resolved, the modification time only     *)
(* when both failed.                                                       *)
Cex_C9_FirstSuccessfulStepWins ==
    DateReturned =>
        LET f == files[1]
        IN  IF ParsableTags(f) # {}
            THEN date_out \in {TagDate(f, tg) : tg \in ParsableTags(f)}
            ELSE IF FileNameDate(f) # None
            THEN date_out = FileNameDate(f)
            ELSE date_out = f.mtime

(* C10: of several embedded date tags the original-capture one is used     *)
(* when it is parsable, else the digitized-capture one, else the generic   *)
(* one, whatever order they are stored in and whether or not a tag of      *)
(* higher priority is unparsable.                                          *)
Cex_C10_TagPriorityOrder ==
    DateReturned =>
        LET f == files[1]
            ok == ParsableTags(f)
        IN  /\ "DateTimeOriginal" \in ok
                => date_out = TagDate(f, "DateTimeOriginal")
            /\ ("DateTimeOriginal" \notin ok /\ "DateTimeDigitized" \in ok)
                => date_out = TagDate(f, "DateTimeDigitized")
            /\ (ok = {"DateTime"}) => date_out = TagDate(f, "DateTime")

----------------------------------------------------------------------------
\* the year, month and day fields of a matched text
Ymd(text) == <<text[1], text[2], text[3]>>

\* the matched text names a day of the calendar
IsCalendarDate(text) ==
    /\ text[1] \in 1..9999
    /\ text[2] \in 1..12
    /\ text[3] \in 1..DaysIn(text[1], text[2])

\* a pattern fails: it matches nowhere, or its first match is no date
FirstMatchFails(matches) == matches = <<>> \/ ~IsCalendarDate(Head(matches))

\* the file-name step is reached: no embedded date tag was usable
FileNameStepReached(f) == ParsableTags(f) = {}

(* C11: in the file-name step of get_image_date the patterns are tried in  *)
(* the order YYYY-MM-DD, 8 digits, 14 digits; a pattern whose first match  *)
(* is not a calendar date fails and the next pattern is tried; matches     *)
(* after the first of a pattern are never used; when all three fail the    *)
(* modification time is the result.                                        *)
Thm_C11_PatternOrderFirstMatchOnly ==
    (DateReturned /\ FileNameStepReached(files[1])) =>
        LET nm == files[1].name
        IN  IF ~FirstMatchFails(nm.dashed) THEN date_out = Ymd(Head(nm.dashed))
            ELSE IF ~FirstMatchFails(nm.digits8) THEN date_out = Ymd(Head(nm.digits8))
            ELSE IF ~FirstMatchFails(nm.digits14) THEN date_out = Ymd(Head(nm.digits14))
            ELSE date_out = files[1].mtime

\* the YYYY-MM-DD pattern matches a non-date first and a date second, and
\* the 8-digit pattern gave the result
Wit_C11_LaterMatchIgnored ==
    /\ DateReturned
    /\ FileNameStepReached(files[1])
    /\ files[1].name.dashed = <<BadYMD, D1>>
    /\ files[1].name.digits8 = <<D2, D1>>
    /\ date_out = D2

\* both functions of the scan loop have returned
MetaReturned == pc \in {"date_returned", "location_returned"}
LocationReturned == pc = "location_returned"

\* the embedded-tag step fails: the file or its EXIF block cannot be read,
\* or no date tag holds a timestamp
EmbeddedStepFails(f) ==
    \/ ~f.readable
    \/ f.exif.status # "ok"
    \/ \A k \in DOMAIN f.exif.items :
          f.exif.items[k].tag \in DateTags => f.exif.items[k].value = Garbage

\* the GPS block stored in the file, None when it has none
GpsBlock(f) ==
    IF \E k \in DOMAIN f.exif.items : f.exif.items[k].tag = "GPSInfo"
    THEN f.exif.items[CHOOSE k \in DOMAIN f.exif.items :
                         f.exif.items[k].tag = "GPSInfo"].value
    ELSE None

\* reading the location fails: the file or its EXIF block cannot be read,
\* or a coordinate is malformed
LocationReadFails(f) ==
    \/ ~f.readable
    \/ f.exif.status = "error"
    \/ (GpsBlock(f) # None /\ BrokenDMS \in {GpsBlock(f)[2], GpsBlock(f)[4]})

(* C12: for an existing file, whatever fails in the embedded-tag step and  *)
(* in each file-name pattern, get_image_date raises nothing and returns a  *)
(* date, that of the first step after the failed ones; get_image_location  *)
(* raises nothing either and returns no location when reading it fails.    *)
Thm_C12_NeverRaises ==
    /\ pc # "raised"
    /\ MetaReturned =>
        LET f == files[1]
        IN  /\ date_out # None /\ IsCalendarDate(date_out)
            /\ EmbeddedStepFails(f) =>
                 IF ~FirstMatchFails(f.name.dashed)
                     THEN date_out = Ymd(Head(f.name.dashed))
                 ELSE IF ~FirstMatchFails(f.name.digits8)
                     THEN date_out = Ymd(Head(f.name.digits8))
                 ELSE IF ~FirstMatchFails(f.name.digits14)
                     THEN date_out = Ymd(Head(f.name.digits14))
                 ELSE date_out = f.mtime
    /\ (LocationReturned /\ LocationReadFails(files[1])) => location_out = None

\* every step failed on one file: a date tag that is no timestamp, three
\* patterns matching non-dates, a latitude with a zero denominator
Wit_C12_EveryStepFailed ==
    /\ LocationReturned
    /\ files[1].readable
    /\ files[1].exif.status = "ok"
    /\ EmbeddedStepFails(files[1])
    /\ files[1].name.dashed = <<BadYMD>>
    /\ files[1].name.digits8 = <<BadYMD>>
    /\ files[1].name.digits14 # <<>>
    /\ GpsBlock(files[1]) # None
    /\ GpsBlock(files[1])[2] = BrokenDMS
    /\ date_out = files[1].mtime
    /\ location_out = None

(* C13: get_image_location returns a location only when the GPS block      *)
(* holds both a latitude and a longitude and neither is zero; with no GPS  *)
(* block, or a component missing or zero, the location is absent, and the  *)
(* location part of the output name is then NoLocation.                    *)
Thm_C13_LocationNeedsBothNonZero ==
    LocationReturned =>
        LET f == files[1]
            g == GpsBlock(f)
            complete == /\ g # None
                        /\ g[2] # None /\ g[2] # ZeroDMS
                        /\ g[4] # None /\ g[4] # ZeroDMS
        IN  /\ location_out # None => complete
            /\ (complete /\ ~LocationReadFails(f)) => location_out # None
            /\ ~complete => location_str([location |-> location_out]) = <<"NoLocation">>
            /\ location_out # None => location_str([location |-> location_out]) = location_out

\* a latitude of 0 degrees with a real longitude gave no location
Wit_C13_ZeroLatitude ==
    /\ LocationReturned
    /\ HasExif(files[1])
    /\ GpsBlock(files[1]) # None
    /\ GpsBlock(files[1])[2] = ZeroDMS
    /\ GpsBlock(files[1])[4] = London[4]
    /\ location_out = None

(* C14: a file with the embedded coordinates (51.50735, -0.12776), stored  *)
(* as 51 deg 30' 26.46" N, 0 deg 7' 39.936" W, gives the location          *)
(* 51.50735_-0.12776; a western longitude or a southern latitude gives a   *)
(* component that is not positive; a file with no GPS block gives          *)
(* NoLocation.                                                             *)
Cex_C14_HemisphereSign ==
    (LocationReturned /\ HasExif(files[1])) =>
        LET g == GpsBlock(files[1])
        IN  /\ g = London => location_out = <<5150735, "_", 0 - 12776>>
            /\ (g # None /\ location_out # None) =>
                  /\ g[1] = <<"S">> => location_out[1] <= 0
                  /\ g[3] = <<"W">> => location_out[3] <= 0
            /\ g = None => location_str([location |-> location_out]) = <<"NoLocation">>

----------------------------------------------------------------------------
\* copy_selected_photos has returned
CopiesMade == pc \in {"report", "done"}

\* the last position of a character in a text, 0 when it is not there
LastIndexOf(text, ch) ==
    LET hits == {k \in DOMAIN text : text[k] = ch}
    IN  IF hits = {} THEN 0 ELSE CHOOSE k \in hits : \A j \in hits : j <= k

\* the number a text of decimal digits writes
RECURSIVE int(_)
int(text) ==
    IF text = <<>> THEN 0
    ELSE 10 * int(SubSeq(text, 1, Len(text) - 1))
         + (CHOOSE d \in 0..9 : DigitChars[d + 1] = text[Len(text)])

\* the rank read off a destination name: the digits between its last
\* underscore and the dot of its extension
RankInName(name) ==
    int(SubSeq(name, LastIndexOf(name, "_") + 1, LastIndexOf(name, ".") - 1))

\* two selected records alike in date, location, originating folder name
\* and extension
AlikeInName(i, j) ==
    /\ selected_photos[i].date = selected_photos[j].date
    /\ selected_photos[i].location = selected_photos[j].location
    /\ files[selected_photos[i].path].folder = files[selected_photos[j].path].folder
    /\ files[selected_photos[i].path].ext = files[selected_photos[j].path].ext

(* C15: copy_selected_photos gives the selected records pairwise distinct  *)
(* destination names, also to records with the same date, location,        *)
(* originating folder name and extension.                                  *)
Thm_C15_DistinctDestinationNames ==
    CopiesMade =>
        /\ Len(copies) = Len(selected_photos)
        /\ \A i, j \in DOMAIN copies : i # j => copies[i].dst # copies[j].dst

\* three records that differ in nothing the name is built from
Wit_C15_RecordsAlikeInName ==
    /\ CopiesMade
    /\ Len(copies) = 3
    /\ AlikeInName(1, 2)
    /\ AlikeInName(2, 3)

(* C16: the rank in the destination name of a record is its 1-based        *)
(* position in the selection: ranks run 1..k in selection order, and a     *)
(* failed copy does not change the rank of a later record.                 *)
Thm_C16_RankIsSelectionPosition ==
    CopiesMade =>
        \A k \in DOMAIN copies :
            /\ copies[k].src = selected_photos[k].path
            /\ RankInName(copies[k].dst) = k

\* the first copy failed and the records after it were copied
Wit_C16_RankAfterFailedCopy ==
    /\ CopiesMade
    /\ Len(copies) = 3
    /\ ~copies[1].ok
    /\ copies[2].ok
    /\ copies[3].ok
    /\ RankInName(copies[3].dst) = 3

(* C17: a copy that fails does not end the loop: whichever copies fail,    *)
(* every selected record is attempted, in order, and each failure is       *)
(* printed for its own source file.                                        *)
Thm_C17_FailureDoesNotAbort ==
    CopiesMade =>
        /\ Len(copies) = Len(selected_photos)
        /\ \A k \in DOMAIN selected_photos :
              /\ copies[k].src = selected_photos[k].path
              /\ copies[k].printed =
                    IF copies[k].ok
                    THEN <<"Copied", selected_photos[k].path, copies[k].dst>>
                    ELSE <<"Error copying", selected_photos[k].path>>

\* two copies failed, one of them the first, and the record between them
\* was copied
Wit_C17_CopiedBetweenFailures ==
    /\ CopiesMade
    /\ Len(selected_photos) = 3
    /\ Len(copies) = 3
    /\ ~copies[1].ok
    /\ copies[2].ok
    /\ ~copies[3].ok
    /\ copies[3].printed = <<"Error copying", selected_photos[3].path>>

----------------------------------------------------------------------------
\* the report has been written
ReportWritten == pc = "done"

\* the sources whose copy succeeded
Materialized == {copies[k].src : k \in {j \in DOMAIN copies : copies[j].ok}}

(* C18: a selected record whose copy failed is left out of the report of   *)
(* photo_sort.main: the rows of the report are exactly the selected        *)
(* records whose copy succeeded.                                           *)
Cex_C18_ReportOmitsFailedCopies ==
    ReportWritten => PathsOf(report) = Materialized

(* C19: the report of photo_sort.main has one row for each selected        *)
(* record, in rank order, and each row holds the original path, the        *)
(* destination path, the capture date, the location and the quality score  *)
(* of its record.                                                          *)
Cex_C19_ReportRowFields ==
    ReportWritten =>
        /\ Len(report) = Len(selected_photos)
        /\ \A k \in DOMAIN report :
              /\ {"path", "destination", "date", "location", "score"}
                    \subseteq DOMAIN report[k]
              /\ report[k].path = selected_photos[k].path
              /\ report[k].destination = copies[k].dst
              /\ report[k].date = selected_photos[k].date
              /\ report[k].location = selected_photos[k].location
              /\ report[k].score = selected_photos[k].score

----------------------------------------------------------------------------
\* main ended on an exception nothing caught
Crashed == pc = "crashed"

\* the steps of main from the scan to the written report
CategoriseSteps ==
    {"categorise_scan", "categorise_select", "categorise_copy",
     "categorise_report", "done"}

(* C20: whatever fails for single files (an unreadable file, an            *)
(* undecodable image, missing metadata, a failed copy), a run of the       *)
(* entry point goes on to its end and writes the report: no failure of     *)
(* one file takes the run off the path that ends with the written report.  *)
Cex_C20_RunReachesReport ==
    /\ ~Crashed
    /\ pc \in CategoriseSteps

----------------------------------------------------------------------------
\* a limit below zero makes the configuration invalid
InvalidConfiguration == top_n < 0 \/ global_limit < 0

(* C21: with an invalid limit configuration, such as a negative per-event  *)
(* or global limit, the run ends in a fatal error before any file is       *)
(* fingerprinted, scored, selected or copied: no record, no selection and  *)
(* no output file ever comes of an invalid configuration.                  *)
Cex_C21_InvalidConfigurationNeverRuns ==
    InvalidConfiguration =>
        /\ seen_hashes = {}
        /\ photo_info = <<>>
        /\ selected_photos = <<>>
        /\ \A k \in DOMAIN copies : ~copies[k].ok
        /\ report = <<>>
        /\ pc # "done"

----------------------------------------------------------------------------
\* select_top_photos of categorise_photos.py has returned
CategoriseSelected == pc \in {"categorise_copy", "categorise_report", "done"}

\* the record is of a file with a face that matches a reference face
HasSubject(r) == files[r.path].face_match

(* C22: in the ranking of categorise_photos a matching face is a tier of   *)
(* its own: every selected record with a match stands before every         *)
(* selected record of the same event without one, whatever quality scores  *)
(* the scorer gave them.                                                   *)
Cex_C22_SubjectTierAboveQuality ==
    CategoriseSelected =>
        \A i, j \in DOMAIN selected_photos :
            (/\ selected_photos[i].date = selected_photos[j].date
             /\ HasSubject(selected_photos[i])
             /\ ~HasSubject(selected_photos[j])) => i < j

----------------------------------------------------------------------------
\* the records of the scan whose image failed to decode, and those whose
\* image decoded
FailedDecode == {k \in DOMAIN photo_info : ~files[photo_info[k].path].decodable}
Decoded == {k \in DOMAIN photo_info : files[photo_info[k].path].decodable}

IsSelected(k) == photo_info[k] \in Range(selected_photos)

(* C23: an image that fails to decode scores 0, and whatever the scan      *)
(* order, its record is never selected while a decoded record of the same  *)
(* event with a score >= 0 is left out.                                    *)
Thm_C23_ZeroScoreDominance ==
    SelectionDone =>
        \A u \in FailedDecode :
            /\ photo_info[u].score = 0
            /\ IsSelected(u) =>
                 \A d \in Decoded :
                    (/\ photo_info[d].date = photo_info[u].date
                     /\ photo_info[d].score >= 0) => IsSelected(d)

\* the undecodable image was scanned first and is cut, a decoded one of its
\* event scanned after it is selected
Wit_C23_FailedDecodeScannedFirstIsCut ==
    /\ SelectionDone
    /\ top_n = 1
    /\ global_limit >= 1
    /\ 1 \in FailedDecode
    /\ ~IsSelected(1)
    /\ \E d \in Decoded : /\ d > 1
                          /\ photo_info[d].date = photo_info[1].date
                          /\ IsSelected(d)

----------------------------------------------------------------------------
\* the scan has just ended
ScanJustEnded == pc = "group"

\* the orders in which n files can be scanned
ScanOrders(n) == {p \in [1..n -> 1..n] : \A i, j \in 1..n : p[i] = p[j] => i = j}

\* the files of the folder in the order p
Reordered(p) == [k \in DOMAIN files |-> files[p[k]]]

\* files i and j hold the same bytes
SameBytes(i, j) == files[i].bytes = files[j].bytes

(* C24, as the code has it: for every order of scanning the same files     *)
(* the set of surviving fingerprints and the number of surviving records   *)
(* are the same, and at most one readable file of any byte content         *)
(* survives; a file that cannot be read has no fingerprint of its bytes    *)
(* and may survive beside a readable file of the same bytes.               *)
Thm_C24_DedupOrderIndependentForReadable ==
    ScanJustEnded =>
        /\ scan_loop(files) = [seen_hashes |-> seen_hashes, photo_info |-> photo_info]
        /\ \A p \in ScanOrders(Len(files)) :
              LET res == scan_loop(Reordered(p))
              IN  /\ res.seen_hashes = seen_hashes
                  /\ Len(res.photo_info) = Len(photo_info)
                  /\ \A i, j \in PathsOf(res.photo_info) :
                        (i # j /\ files[i].readable /\ files[j].readable)
                            => ~SameBytes(i, j)

\* two of three files hold the same bytes, and the copy scanned last was
\* dropped; in another order the other copy is the one dropped
Wit_C24_WhichCopySurvivesDependsOnOrder ==
    /\ ScanJustEnded
    /\ Len(files) = 3
    /\ Candidates = {1, 2, 3}
    /\ files[1].readable /\ files[3].readable
    /\ SameBytes(1, 3)
    /\ ~SameBytes(1, 2)
    /\ PathsOf(photo_info) = {1, 2}
    /\ \E p \in ScanOrders(3) : PathsOf(scan_loop(Reordered(p)).photo_info) = {2, 3}

(* C24: for every order of scanning the same files at most one file of     *)
(* any byte content survives, and the set of surviving fingerprints and    *)
(* the number of surviving records are the same for all orders.            *)
Cex_C24_OneSurvivorPerByteContent ==
    ScanJustEnded =>
        \A p \in ScanOrders(Len(files)) :
            LET res == scan_loop(Reordered(p))
            IN  /\ res.seen_hashes = seen_hashes
                /\ Len(res.photo_info) = Len(photo_info)
                /\ \A i, j \in PathsOf(res.photo_info) : i # j => ~SameBytes(i, j)

----------------------------------------------------------------------------
\* the second run has ended
SecondRunDone == pc = "done" /\ first_run # None

(* C25: main run twice on an unchanged input folder with the same output   *)
(* folder, the second run finding there what the first wrote, selects the  *)
(* same records in the same order, gives them the same destination names   *)
(* and writes the same report.                                             *)
Thm_C25_SecondRunRepeatsFirst ==
    SecondRunDone =>
        /\ selected_photos = first_run.selected_photos
        /\ [k \in DOMAIN copies |-> copies[k].dst] = first_run.names
        /\ report = first_run.report

\* the second run ended after a first run that selected two records,
\* copied the first and failed on the second, which the second run copied
Wit_C25_SecondRunOverExistingOutput ==
    /\ SecondRunDone
    /\ Len(first_run.selected_photos) = 2
    /\ Cardinality(output_folder) = 2
    /\ ~copies[1].ok
    /\ copies[2].ok

----------------------------------------------------------------------------
\* the threads that hold a file between its test and its insertion
BetweenTestAndInsert == {w \in ScanWorkers : at_test[w] # None}

\* the files judged first-seen so far: inserted, or held for insertion
JudgedFirstSeen ==
    PathsOf(photo_info) \cup {at_test[w][1] : w \in BetweenTestAndInsert}

(* C26: the membership test on the set of seen fingerprints and the        *)
(* insertion are never interleaved between two files: while a file is      *)
(* between its test and its insertion no other file is taken, no two       *)
(* files with the same fingerprint are both judged first-seen, and never   *)
(* is more than one thread about to write the set.                         *)
Thm_C26_TestAndInsertNotInterleaved ==
    /\ Cardinality(BetweenTestAndInsert) <= 1
    /\ \A w \in BetweenTestAndInsert : at_test[w][1] = idx
    /\ \A i, j \in JudgedFirstSeen :
          get_image_hash(files[i]) = get_image_hash(files[j]) => i = j

\* the scan took a second file with the fingerprint of an inserted one
\* and skipped it
Wit_C26_SameFingerprintTestedAfterInsertion ==
    /\ pc = "scan"
    /\ BetweenTestAndInsert = {}
    /\ idx >= 2
    /\ PathsOf(photo_info) = {1}
    /\ 2 \in skipped
    /\ get_image_hash(files[1]) = get_image_hash(files[2])

----------------------------------------------------------------------------
\* either selector has returned, with no global limit
SelectedWithoutGlobalLimit ==
    pc \in {"copy", "categorise_copy"} /\ global_limit = NoLimit

\* the selected records of a date
SelectedOfDate(d) == {r \in Range(selected_photos) : r.date = d}

(* C27: with no global limit every per-event survivor passes through: the  *)
(* output of select_top_photos of categorise_photos.py, and of the one of  *)
(* photo_sort.py called without a global limit, holds for each event its   *)
(* N best records (all of them when it has fewer), each once, and nothing  *)
(* else.                                                                   *)
Thm_C27_ExactlyPerEventTopN ==
    (SelectedWithoutGlobalLimit /\ top_n >= 0) =>
        /\ Range(selected_photos) \subseteq Range(photo_info)
        /\ Len(selected_photos) = Cardinality(Range(selected_photos))
        /\ \A d \in Dates :
              /\ Cardinality(SelectedOfDate(d)) = Min(top_n, Len(OfDate(photo_info, d)))
              /\ \A r \in SelectedOfDate(d) :
                    \A s \in Range(OfDate(photo_info, d)) \ SelectedOfDate(d) :
                        r.score >= s.score

\* categorise_photos' selector kept the best record of each of two events,
\* two records in all with a per-event limit of 1
Wit_C27_OnePerEventOfTwoEvents ==
    /\ pc = "categorise_copy"
    /\ global_limit = NoLimit
    /\ top_n = 1
    /\ Len(photo_info) = 4
    /\ Len(OfDate(photo_info, D1)) = 2
    /\ Len(OfDate(photo_info, D2)) = 2
    /\ Len(selected_photos) = 2

----------------------------------------------------------------------------
\* copy_all_images has returned and every copy it tried succeeded
AllCopied == pc = "done" /\ \A k \in DOMAIN copies : copies[k].ok

\* what main would select from the same files with both caps disabled
SelectedWithCapsDisabled ==
    select_top_photos(group_photos_by_event(scan_loop(files).photo_info),
                      NoLimit, NoLimit)

(* C28: copy_all_images is the pipeline with both caps disabled: for every *)
(* input it copies the source files main would copy with unbounded         *)
(* limits, so one output file for each distinct byte content.              *)
Cex_C28_CopyAllIsUncappedPipeline ==
    AllCopied =>
        /\ {copies[k].src : k \in DOMAIN copies} = PathsOf(SelectedWithCapsDisabled)
        /\ \A i, j \in DOMAIN copies :
              i # j => ~SameBytes(copies[i].src, copies[j].src)
        /\ Cardinality(output_folder)
              = Cardinality({files[k].bytes : k \in Candidates})

----------------------------------------------------------------------------
\* the record the scan built for a path
BuiltFor(path) == CHOOSE r \in Range(photo_info) : r.path = path

(* C29: grouping and selection make no record and change none: the output  *)
(* of select_top_photos holds records the scan built, none of them twice,  *)
(* each with the path, score, date and location it was built with, and so  *)
(* do the events of group_photos_by_event.                                 *)
Thm_C29_SelectionIsSubCollection ==
    /\ Grouped =>
          \A e \in DOMAIN events : Range(events[e].photos) \subseteq Range(photo_info)
    /\ SelectionDone =>
          /\ \A i, j \in DOMAIN selected_photos :
                selected_photos[i].path = selected_photos[j].path => i = j
          /\ \A k \in DOMAIN selected_photos :
                /\ selected_photos[k].path \in PathsOf(photo_info)
                /\ selected_photos[k].score = BuiltFor(selected_photos[k].path).score
                /\ selected_photos[k].date = BuiltFor(selected_photos[k].path).date
                /\ selected_photos[k].location = BuiltFor(selected_photos[k].path).location

\* two of three records of unequal scores were selected, in an order that
\* is not the scan order
Wit_C29_ReorderedSubCollection ==
    /\ SelectionDone
    /\ Len(photo_info) = 3
    /\ Len(selected_photos) = 2
    /\ selected_photos[1] = photo_info[3]
    /\ selected_photos[2] = photo_info[1]
    /\ photo_info[3].score > photo_info[1].score

----------------------------------------------------------------------------
(* SpecNested: categorize.py, which files the images of one folder under   *)
(* output/<month>/<day>/ and reports the files it copied                   *)

MaxNestedFiles == 2

\* date_obj.strftime("%Y-%m")
strftime_month(d) == zfill(str(d[1]), 4) \o <<"-">> \o zfill(str(d[2]), 2)

UnknownMonth == <<"UnknownMonth">>
UnknownDate == <<"UnknownDate">>

\* matches are the texts the pattern \d{4}-\d{2}-\d{2} matches in the file
\* name, in order; re.search gives the first
extract_date_parts(matches) ==
    IF matches = <<>> \/ strptime_date(Head(matches), 3) = None
    THEN <<UnknownMonth, UnknownDate>>
    ELSE LET date_obj == strptime_date(Head(matches), 3)
         IN  <<strftime_month(date_obj), strftime(date_obj)>>

\* str.lower() of the extensions of the model
lower(ext) == IF ext = ".JPG" THEN ".jpg" ELSE IF ext = ".PNG" THEN ".png" ELSE ext

\* file.lower().endswith(('.jpg', '.jpeg', '.png'))
nested_is_image(f) == lower(f.ext) \in {".jpg", ".jpeg", ".png"}

\* os.path.join of a folder path and one more component
os_path_join(folder, component) == Append(folder, component)

categorized_photos == <<"categorized_photos">>

month_folder(f) == os_path_join(categorized_photos, extract_date_parts(f.name.dashed)[1])
day_folder(f) == os_path_join(month_folder(f), extract_date_parts(f.name.dashed)[2])
dst(f) == os_path_join(day_folder(f), f.path)

\* a loop body that appends the row before it copies
photo_data_appended_before_copy(rows, f, ok) ==
    Append(rows, [filename |-> f.path,
                  month |-> extract_date_parts(f.name.dashed)[1],
                  day |-> extract_date_parts(f.name.dashed)[2],
                  path |-> dst(f)])

\* the try block: the row is appended after shutil.copy2 returned, and the
\* handler of Exception appends nothing
photo_data_after_copy(rows, f, ok) ==
    IF ok
    THEN Append(rows, [filename |-> f.path,
                       month |-> extract_date_parts(f.name.dashed)[1],
                       day |-> extract_date_parts(f.name.dashed)[2],
                       path |-> dst(f)])
    ELSE rows

\* lines 22-25: the output folder is made where it does not exist
NestedStart ==
    /\ pc = "nested"
    /\ pc' = "nested_loop"
    /\ output_folder' = output_folder \cup {categorized_photos}
    /\ photo_data' = <<>>
    /\ UNCHANGED <<files, idx, seen_hashes, skipped, photo_info, top_n,
                   global_limit, events, survivors, selected_photos, copies,
                   report, date_out, location_out, first_run, at_test>>

\* lines 26-46: one turn of the loop over os.listdir(input_folder); the
\* month and day folders are made before the copy is tried, and shutil.copy2
\* returns or raises
NestedFile ==
    /\ pc = "nested_loop"
    /\ idx < Len(files)
    /\ idx' = idx + 1
    /\ LET f == files[idx + 1]
       IN  IF ~nested_is_image(f)
           THEN UNCHANGED <<output_folder, copies, photo_data>>
           ELSE \E ok \in BOOLEAN :
                   /\ output_folder' =
                         output_folder \cup {month_folder(f), day_folder(f)}
                             \cup (IF ok THEN {dst(f)} ELSE {})
                   /\ copies' = Append(copies,
                         [src |-> f.path, dst |-> dst(f), ok |-> ok,
                          message |-> IF ok THEN None ELSE <<"Error copying", f.path>>])
                   /\ photo_data' = photo_data_after_copy(photo_data, f, ok)
    /\ UNCHANGED <<pc, files, seen_hashes, skipped, photo_info, top_n,
                   global_limit, events, survivors, selected_photos, report,
                   date_out, location_out, first_run, at_test>>

\* lines 48-52: the rows are written to photo_categorization_nested.csv
NestedReport ==
    /\ pc = "nested_loop"
    /\ idx = Len(files)
    /\ pc' = "nested_done"
    /\ report' = photo_data
    /\ output_folder' = output_folder
          \cup {os_path_join(categorized_photos, <<"photo_categorization_nested.csv">>)}
    /\ UNCHANGED <<files, idx, seen_hashes, skipped, photo_info, top_n,
                   global_limit, events, survivors, selected_photos, copies,
                   date_out, location_out, first_run, at_test, photo_data>>

\* the files of the input folder: extensions the filter takes and refuses,
\* names without a date, with one, with a text that is no date, and with
\* both in either order
NestedNames ==
    [ext : {".jpg", ".PNG", ".txt"},
     name : [dashed : {<<>>, <<D1>>, <<BadYMD>>, <<BadYMD, D2>>, <<D2, BadYMD>>},
             digits8 : {<<>>}, digits14 : {<<>>}]]

InitNested ==
    /\ pc = "nested"
    /\ \E s \in SeqsUpTo(NestedNames, MaxNestedFiles) :
          files = [k \in DOMAIN s |->
                      [path |-> k, folder |-> "curated_photos",
                       ext |-> s[k].ext, name |-> s[k].name]]
    /\ \E exists \in BOOLEAN :
          output_folder = IF exists THEN {categorized_photos} ELSE {}
    /\ idx = 0
    /\ seen_hashes = {}
    /\ skipped = {}
    /\ photo_info = <<>>
    /\ top_n = NoLimit
    /\ global_limit = NoLimit
    /\ events = <<>>
    /\ survivors = <<>>
    /\ selected_photos = <<>>
    /\ copies = <<>>
    /\ report = <<>>
    /\ date_out = None
    /\ location_out = None
    /\ first_run = None
    /\ at_test = [w \in ScanWorkers |-> None]
    /\ photo_data = <<>>

NextNested == NestedStart \/ NestedFile \/ NestedReport

SpecNested == InitNested /\ [][NextNested]_vars

----------------------------------------------------------------------------
NestedDone == pc = "nested_done"

\* the attempt made for the file at a listing position, None where none was
NestedAttempt(k) ==
    IF \E a \in DOMAIN copies : copies[a].src = files[k].path
    THEN copies[CHOOSE a \in DOMAIN copies : copies[a].src = files[k].path]
    ELSE None

\* the rows of the report that name the file at a listing position
RowsFor(k) == {r \in DOMAIN report : report[r].filename = files[k].path}

\* the file name holds no text YYYY-MM-DD that is a day of the calendar
HoldsNoValidDate(f) ==
    \A m \in DOMAIN f.name.dashed : ~IsCalendarDate(f.name.dashed[m])

\* a text YYYY-MM-DD
IsDayText(text) ==
    /\ Len(text) = 10
    /\ text[5] = "-" /\ text[8] = "-"
    /\ \A c \in {1, 2, 3, 4, 6, 7, 9, 10} : text[c] \in Range(DigitChars)

=============================================================================
